---- MODULE Spec2Model ----
(***************************************************************************)
(* Model of the DAG type of src/dag.go (the implementation that starts at  *)
(* line 278: vertices with an Id(), ancestor- and descendant-caches).      *)
(*                                                                         *)
(* A vertex is a value of the Vertex interface; two different values may   *)
(* return the same Id().  The graph is the six maps of the DAG struct.     *)
(* A map[Vertex]bool holds only "true" and is modelled as a set.  The      *)
(* caches and vertexIds are functions whose DOMAIN is the key set of the   *)
(* Go map.  inboundEdge and outboundEdge are functions on all vertices:    *)
(* every read of the code treats a missing key like an empty inner map (a  *)
(* nil map reads as empty, delete on it does nothing), so the two are one  *)
(* value here, the empty set.                                              *)
(*                                                                         *)
(* Every method is an operator on the struct d that returns the struct     *)
(* after the call, the error and the result; the action of the same call   *)
(* applies it to the state.                                                *)
(***************************************************************************)
EXTENDS Integers, FiniteSets, Sequences, TLC

\* Number of different ids that vertices of the model can have.
NumIds == 3

\* Walker goroutines that may be alive at the same time.
MaxWalkers == 1

\* The nil Vertex.
Nil == 0

\* The vertex values calls are made with: one value per id, and one further
\* value that returns the same Id() as vertex 1.
Vertex == 1 .. (NumIds + 1)

\* Vertex.Id()
Id(v) == IF v > NumIds THEN 1 ELSE v

\* The number of goroutines that call mutating methods at once.
NumCallers == 2

\* The goroutines that lock keys of one dMutex, and the keys.
NumLockers == 3
NumKeys == 2

\* The goroutines that call GetAncestors or GetDescendants at once, and the
\* calls of mutating methods next to them.
NumQueries == 2
MaxMutations == 1

\* Arguments of the calls: a vertex value or nil.
Arg == Vertex \cup {Nil}

\* Arguments of GetVertex: an id, the empty string, or an id no vertex has.
EmptyId == 0
IdArg == 0 .. (NumIds + 1)

VARIABLES
    vertices,           \* DAG.vertices         map[Vertex]bool
    vertexIds,          \* DAG.vertexIds        map[string]Vertex
    inboundEdge,        \* DAG.inboundEdge      map[Vertex]map[Vertex]bool
    outboundEdge,       \* DAG.outboundEdge     map[Vertex]map[Vertex]bool
    ancestorsCache,     \* DAG.ancestorsCache   map[Vertex]map[Vertex]bool
    descendantsCache,   \* DAG.descendantsCache map[Vertex]map[Vertex]bool
    walkers,            \* number of walker goroutines started and not ended
    flow,               \* the state of the DescendantsFlow call, if any
    walker,             \* a walker's goroutine, its channels and its consumer
    visit,              \* the DFSWalk, BFSWalk or OrderedWalk call, if any
    callers,            \* the goroutines that call mutating methods at once
    stored,             \* the bytes MarshalJSON returned or UnmarshalJSON got
    verticesLocked,     \* DAG.verticesLocked   *dMutex
    muDAG,              \* DAG.muDAG            sync.RWMutex
    returned,           \* the collection a query has handed to its caller
    last                \* the last call: its name, the error it returned and
                        \* by how much it changed the number of vertices

vars == <<vertices, vertexIds, inboundEdge, outboundEdge, ancestorsCache,
          descendantsCache, walkers, flow, walker, visit, callers, stored,
          verticesLocked, muDAG, returned, last>>

----------------------------------------------------------------------------
(* Go maps *)

\* make(map[...]...) of a map whose key set matters
EmptyMap == [x \in {} |-> {}]

\* make(map[Vertex]map[Vertex]bool) of an adjacency map
NoEdges == [x \in Vertex |-> {}]

\* m[k] = s
Put(m, k, s) == [x \in DOMAIN m \cup {k} |-> IF x = k THEN s ELSE m[x]]

\* delete(m, k)
Del(m, k) == [x \in DOMAIN m \ {k} |-> m[x]]

\* delete(m, k) for every k of ks
DelAll(m, ks) == [x \in DOMAIN m \ ks |-> m[x]]

\* The DAG struct as one record.
D == [vertices |-> vertices, vertexIds |-> vertexIds,
      inboundEdge |-> inboundEdge, outboundEdge |-> outboundEdge,
      ancestorsCache |-> ancestorsCache, descendantsCache |-> descendantsCache]

\* NewDAG
NewDAG == [vertices |-> {}, vertexIds |-> EmptyMap,
           inboundEdge |-> NoEdges, outboundEdge |-> NoEdges,
           ancestorsCache |-> EmptyMap, descendantsCache |-> EmptyMap]

\* What a call returns: the struct after it, its error ("ok" for nil), its
\* result, and the number of goroutines it started.
Ret(d, err, ret) == [d |-> d, err |-> err, ret |-> ret, go |-> 0]

----------------------------------------------------------------------------
(* Helpers of the DAG *)

\* addVertex that forgets to register the id of the vertex.
addVertexNoId(d, v) == [d EXCEPT !.vertices = @ \cup {v}]

\* DAG.addVertex
addVertex(d, v) ==
    [d EXCEPT !.vertices = @ \cup {v},
              !.vertexIds = Put(@, Id(v), v)]

\* saneVertex that looks the vertex up before it tests for nil.
saneVertexUnknownFirst(d, v) ==
    IF v \notin d.vertices THEN "VertexUnknownError"
    ELSE IF v = Nil THEN "VertexNilError"
    ELSE "ok"

\* DAG.saneVertex
saneVertex(d, v) ==
    IF v = Nil THEN "VertexNilError"
    ELSE IF v \notin d.vertices THEN "VertexUnknownError"
    ELSE "ok"

\* DAG.isEdge
isEdge(d, src, dst) ==
    dst \in d.outboundEdge[src] /\ src \in d.inboundEdge[dst]

\* The closure computation shared by getDescendants and getAncestors: edge is
\* the adjacency map that is followed, cache the cache that is read and
\* filled.  The result is the cache after the call; the call's return value
\* is the entry of v in it.
RECURSIVE closure(_, _, _)
RECURSIVE closureOfAll(_, _, _)

\* A closure computation that stops at the children (parents) of v.
closureShallow(edge, cache, v) ==
    IF v \in DOMAIN cache THEN cache ELSE Put(cache, v, edge[v])

closure(edge, cache, v) ==
    IF v \in DOMAIN cache THEN cache
    ELSE LET filled == closureOfAll(edge, cache, edge[v])
         IN  Put(filled, v, edge[v] \cup UNION {filled[n] : n \in edge[v]})

\* The loop over the children (parents) of a vertex: one call per element.
closureOfAll(edge, cache, todo) ==
    IF todo = {} THEN cache
    ELSE LET n == CHOOSE x \in todo : TRUE
         IN  closureOfAll(edge, closure(edge, cache, n), todo \ {n})

\* DAG.getDescendants: the struct after the call.
getDescendants(d, v) ==
    [d EXCEPT !.descendantsCache = closure(d.outboundEdge, @, v)]

\* DAG.getAncestors: the struct after the call.
getAncestors(d, v) ==
    [d EXCEPT !.ancestorsCache = closure(d.inboundEdge, @, v)]

\* A check for circles that looks at src = dst only.
createsLoopSelfOnly(descendants, src, dst) == src = dst

\* The check for circles of AddEdge.
createsLoop(descendants, src, dst) == src = dst \/ src \in descendants

\* An invalidation that forgets the descendants (ancestors) of v.
invalidateOnlyV(cache, set, v) == Del(cache, v)

\* An invalidation that empties the cache.
invalidateAll(cache, set, v) == EmptyMap

\* "for v and all its descendants delete cached ancestors" and its mirror
\* image: the entries of the vertices of set and of v are deleted.
invalidate(cache, set, v) == Del(DelAll(cache, set), v)

\* DAG.getRoots
getRoots(d) == {v \in d.vertices : d.inboundEdge[v] = {}}

\* DAG.getLeafs
getLeafs(d) == {v \in d.vertices : d.outboundEdge[v] = {}}

\* DAG.flushCaches
flushCaches(d) ==
    [d EXCEPT !.ancestorsCache = EmptyMap, !.descendantsCache = EmptyMap]

----------------------------------------------------------------------------
(* The mutating methods *)

\* DAG.AddVertex
AddVertex(d, v) ==
    IF v = Nil THEN Ret(d, "VertexNilError", {})
    ELSE IF v \in d.vertices THEN Ret(d, "VertexDuplicateError", {})
    ELSE IF Id(v) \in DOMAIN d.vertexIds THEN Ret(d, "IdDuplicateError", {})
    ELSE Ret(addVertex(d, v), "ok", {})

\* "ensure vertices" that never adds the endpoint.
ensureVertexNoAdd(d, v) ==
    IF v \notin d.vertices /\ Id(v) \in DOMAIN d.vertexIds
    THEN Ret(d, "IdDuplicateError", {})
    ELSE Ret(d, "ok", {})

\* DAG.AddEdge, "ensure vertices" for one endpoint: the error, and the struct
\* after it.
ensureVertex(d, v) ==
    IF v \in d.vertices THEN Ret(d, "ok", {})
    ELSE IF Id(v) \in DOMAIN d.vertexIds THEN Ret(d, "IdDuplicateError", {})
    ELSE Ret(addVertex(d, v), "ok", {})

\* DAG.AddEdge, from "get descendents and ancestors as they are now" on.
addEdgeKnown(d0, src, dst) ==
    LET d1 == getDescendants(d0, dst)
        descendants == d1.descendantsCache[dst]
        d2 == getAncestors(d1, src)
        ancestors == d2.ancestorsCache[src]
    IN  IF createsLoop(descendants, src, dst)
        THEN Ret(d2, "EdgeLoopError", {})
        ELSE Ret([d2 EXCEPT
                    !.outboundEdge[src] = @ \cup {dst},
                    !.inboundEdge[dst] = @ \cup {src},
                    !.ancestorsCache = invalidate(@, descendants, dst),
                    !.descendantsCache = invalidate(@, ancestors, src)],
                 "ok", {})

\* AddEdge that reports src = dst as a loop.
AddEdgeLoopFirst(d, src, dst) ==
    IF src = Nil \/ dst = Nil THEN Ret(d, "VertexNilError", {})
    ELSE IF src = dst THEN Ret(d, "EdgeLoopError", {})
    ELSE LET s == ensureVertex(d, src)
             t == ensureVertex(s.d, dst)
         IN  IF s.err # "ok" THEN s
             ELSE IF t.err # "ok" THEN t
             ELSE IF isEdge(t.d, src, dst) THEN Ret(t.d, "EdgeDuplicateError", {})
             ELSE addEdgeKnown(t.d, src, dst)

\* DAG.AddEdge
AddEdge(d, src, dst) ==
    IF src = Nil \/ dst = Nil THEN Ret(d, "VertexNilError", {})
    ELSE IF src = dst THEN Ret(d, "SrcDstEqualError", {})
    ELSE LET s == ensureVertex(d, src)
             t == ensureVertex(s.d, dst)
         IN  IF s.err # "ok" THEN s
             ELSE IF t.err # "ok" THEN t
             ELSE IF isEdge(t.d, src, dst) THEN Ret(t.d, "EdgeDuplicateError", {})
             ELSE addEdgeKnown(t.d, src, dst)

\* DeleteVertex that forgets to delete v in the inbound edges of its children.
deleteVertexKnownKeepsInbound(d0, v) ==
    LET d1 == getDescendants(d0, v)
        descendants == d1.descendantsCache[v]
        d2 == getAncestors(d1, v)
        ancestors == d2.ancestorsCache[v]
        parents == d2.inboundEdge[v]
    IN  [d2 EXCEPT
            !.outboundEdge = [x \in Vertex |->
                                IF x = v THEN {}
                                ELSE IF x \in parents THEN @[x] \ {v}
                                ELSE @[x]],
            !.inboundEdge = [x \in Vertex |-> IF x = v THEN {} ELSE @[x]],
            !.ancestorsCache = invalidate(@, descendants, v),
            !.descendantsCache = invalidate(@, ancestors, v),
            !.vertices = @ \ {v},
            !.vertexIds = Del(@, Id(v))]

\* DeleteVertex that leaves the id of v in vertexIds.
deleteVertexKnownKeepsId(d0, v) ==
    LET d1 == getDescendants(d0, v)
        descendants == d1.descendantsCache[v]
        d2 == getAncestors(d1, v)
        ancestors == d2.ancestorsCache[v]
        parents == d2.inboundEdge[v]
        children == d2.outboundEdge[v]
    IN  [d2 EXCEPT
            !.outboundEdge = [x \in Vertex |->
                                IF x = v THEN {}
                                ELSE IF x \in parents THEN @[x] \ {v}
                                ELSE @[x]],
            !.inboundEdge = [x \in Vertex |->
                                IF x = v THEN {}
                                ELSE IF x \in children THEN @[x] \ {v}
                                ELSE @[x]],
            !.ancestorsCache = invalidate(@, descendants, v),
            !.descendantsCache = invalidate(@, ancestors, v),
            !.vertices = @ \ {v}]

\* DAG.DeleteVertex, from "get descendents and ancestors as they are now" on.
deleteVertexKnown(d0, v) ==
    LET d1 == getDescendants(d0, v)
        descendants == d1.descendantsCache[v]
        d2 == getAncestors(d1, v)
        ancestors == d2.ancestorsCache[v]
        parents == d2.inboundEdge[v]
        children == d2.outboundEdge[v]
    IN  [d2 EXCEPT
            \* delete v in outbound edges of parents, and outbound of v itself
            !.outboundEdge = [x \in Vertex |->
                                IF x = v THEN {}
                                ELSE IF x \in parents THEN @[x] \ {v}
                                ELSE @[x]],
            \* delete v in inbound edges of children, and inbound of v itself
            !.inboundEdge = [x \in Vertex |->
                                IF x = v THEN {}
                                ELSE IF x \in children THEN @[x] \ {v}
                                ELSE @[x]],
            !.ancestorsCache = invalidate(@, descendants, v),
            !.descendantsCache = invalidate(@, ancestors, v),
            !.vertices = @ \ {v},
            !.vertexIds = Del(@, Id(v))]

\* DAG.DeleteVertex
DeleteVertex(d, v) ==
    IF saneVertex(d, v) # "ok" THEN Ret(d, saneVertex(d, v), {})
    ELSE Ret(deleteVertexKnown(d, v), "ok", {})

\* DeleteEdge that leaves src among the parents of dst.
deleteEdgeKnownOutboundOnly(d0, src, dst) ==
    LET d1 == getDescendants(d0, src)
        descendants == d1.descendantsCache[src]
        d2 == getAncestors(d1, dst)
        ancestors == d2.ancestorsCache[dst]
    IN  [d2 EXCEPT
            !.outboundEdge[src] = @ \ {dst},
            !.ancestorsCache = invalidate(@, descendants, src),
            !.descendantsCache = invalidate(@, ancestors, dst)]

\* DeleteEdge that reads the closures after it has deleted the edge.
deleteEdgeKnownLate(d0, src, dst) ==
    LET d1 == [d0 EXCEPT !.outboundEdge[src] = @ \ {dst},
                         !.inboundEdge[dst] = @ \ {src}]
        d2 == getDescendants(d1, src)
        descendants == d2.descendantsCache[src]
        d3 == getAncestors(d2, dst)
        ancestors == d3.ancestorsCache[dst]
    IN  [d3 EXCEPT
            !.ancestorsCache = invalidate(@, descendants, src),
            !.descendantsCache = invalidate(@, ancestors, dst)]

\* DeleteEdge that deletes every edge that leaves src.
deleteEdgeKnownAllChildren(d0, src, dst) ==
    LET d1 == getDescendants(d0, src)
        descendants == d1.descendantsCache[src]
        d2 == getAncestors(d1, dst)
        ancestors == d2.ancestorsCache[dst]
    IN  [d2 EXCEPT
            !.outboundEdge[src] = {},
            !.inboundEdge = [x \in Vertex |-> @[x] \ {src}],
            !.ancestorsCache = invalidate(@, descendants, src),
            !.descendantsCache = invalidate(@, ancestors, dst)]

\* DAG.DeleteEdge, from "get descendents and ancestors as they are now" on.
deleteEdgeKnown(d0, src, dst) ==
    LET d1 == getDescendants(d0, src)
        descendants == d1.descendantsCache[src]
        d2 == getAncestors(d1, dst)
        ancestors == d2.ancestorsCache[dst]
    IN  [d2 EXCEPT
            !.outboundEdge[src] = @ \ {dst},
            !.inboundEdge[dst] = @ \ {src},
            !.ancestorsCache = invalidate(@, descendants, src),
            !.descendantsCache = invalidate(@, ancestors, dst)]

\* DeleteEdge that does not test whether the edge exists.
DeleteEdgeNoEdgeCheck(d, src, dst) ==
    IF saneVertex(d, src) # "ok" THEN Ret(d, saneVertex(d, src), {})
    ELSE IF saneVertex(d, dst) # "ok" THEN Ret(d, saneVertex(d, dst), {})
    ELSE IF src = dst THEN Ret(d, "SrcDstEqualError", {})
    ELSE Ret(deleteEdgeKnown(d, src, dst), "ok", {})

\* DAG.DeleteEdge
DeleteEdge(d, src, dst) ==
    IF saneVertex(d, src) # "ok" THEN Ret(d, saneVertex(d, src), {})
    ELSE IF saneVertex(d, dst) # "ok" THEN Ret(d, saneVertex(d, dst), {})
    ELSE IF src = dst THEN Ret(d, "SrcDstEqualError", {})
    ELSE IF ~isEdge(d, src, dst) THEN Ret(d, "EdgeUnknownError", {})
    ELSE Ret(deleteEdgeKnown(d, src, dst), "ok", {})

\* A reduction that looks only at the children of the children of v.
reducedChildrenGrandchildren(d, v) ==
    d.outboundEdge[v] \cap UNION {d.outboundEdge[childOfV] :
                                    childOfV \in d.outboundEdge[v]}

\* A reduction that looks at the cached descendants of v itself.
reducedChildrenOwn(d, v) ==
    IF v \in DOMAIN d.descendantsCache
    THEN d.outboundEdge[v] \cap d.descendantsCache[v]
    ELSE {}

\* ReduceTransitively, the body of "for each vertex": the children of v whose
\* edge from v is removed, those found in the cached descendants of the
\* children of v.  A child without cache entry contributes nothing.
reducedChildren(d, v) ==
    LET descendentsOfChildrenOfV ==
            UNION {d.descendantsCache[childOfV] :
                    childOfV \in d.outboundEdge[v] \cap DOMAIN d.descendantsCache}
    IN  d.outboundEdge[v] \cap descendentsOfChildrenOfV

\* DAG.ReduceTransitively
ReduceTransitively(d0) ==
    LET \* populate the descendents cache for all roots
        d1 == [d0 EXCEPT !.descendantsCache =
                    closureOfAll(d0.outboundEdge, @, getRoots(d0))]
        graphChanged == \E v \in d1.vertices : reducedChildren(d1, v) # {}
        d2 == [d1 EXCEPT
                !.outboundEdge = [x \in Vertex |->
                    IF x \in d1.vertices THEN @[x] \ reducedChildren(d1, x)
                    ELSE @[x]],
                !.inboundEdge = [x \in Vertex |->
                    @[x] \ {v \in d1.vertices : x \in reducedChildren(d1, v)}]]
    IN  Ret(IF graphChanged THEN flushCaches(d2) ELSE d2, "ok", {})

\* DAG.FlushCaches
FlushCaches(d) == Ret(flushCaches(d), "ok", {})

----------------------------------------------------------------------------
(* The closure queries, which fill the caches *)

\* DAG.GetDescendants
GetDescendants(d, v) ==
    IF saneVertex(d, v) # "ok" THEN Ret(d, saneVertex(d, v), {})
    ELSE LET d1 == getDescendants(d, v)
         IN  Ret(d1, "ok", d1.descendantsCache[v])

\* DAG.GetAncestors
GetAncestors(d, v) ==
    IF saneVertex(d, v) # "ok" THEN Ret(d, saneVertex(d, v), {})
    ELSE LET d1 == getAncestors(d, v)
         IN  Ret(d1, "ok", d1.ancestorsCache[v])

----------------------------------------------------------------------------
(* The queries that leave the struct alone *)

\* DAG.GetVertex
GetVertex(d, id) ==
    IF id = EmptyId THEN Ret(d, "IdEmptyError", Nil)
    ELSE IF id \notin DOMAIN d.vertexIds THEN Ret(d, "IdUnknownError", Nil)
    ELSE Ret(d, "ok", d.vertexIds[id])

\* DAG.IsEdge
IsEdge(d, src, dst) ==
    IF saneVertex(d, src) # "ok" THEN Ret(d, saneVertex(d, src), FALSE)
    ELSE IF saneVertex(d, dst) # "ok" THEN Ret(d, saneVertex(d, dst), FALSE)
    ELSE IF src = dst THEN Ret(d, "SrcDstEqualError", FALSE)
    ELSE Ret(d, "ok", isEdge(d, src, dst))

\* DAG.GetOrder
GetOrder(d) == Ret(d, "ok", Cardinality(d.vertices))

\* DAG.getSize
getSize(d) ==
    Cardinality({e \in Vertex \X Vertex : e[2] \in d.outboundEdge[e[1]]})

\* DAG.GetSize
GetSize(d) == Ret(d, "ok", getSize(d))

\* DAG.GetLeafs
GetLeafs(d) == Ret(d, "ok", getLeafs(d))

\* DAG.GetRoots
GetRoots(d) == Ret(d, "ok", getRoots(d))

\* DAG.GetVertices
GetVertices(d) == Ret(d, "ok", d.vertices)

\* DAG.GetParents
GetParents(d, v) ==
    IF saneVertex(d, v) # "ok" THEN Ret(d, saneVertex(d, v), {})
    ELSE Ret(d, "ok", d.inboundEdge[v])

\* DAG.GetChildren
GetChildren(d, v) ==
    IF saneVertex(d, v) # "ok" THEN Ret(d, saneVertex(d, v), {})
    ELSE Ret(d, "ok", d.outboundEdge[v])

\* DAG.IsLeaf
IsLeaf(d, v) ==
    IF saneVertex(d, v) # "ok" THEN Ret(d, saneVertex(d, v), FALSE)
    ELSE Ret(d, "ok", v \in getLeafs(d))

\* DAG.IsRoot
IsRoot(d, v) ==
    IF saneVertex(d, v) # "ok" THEN Ret(d, saneVertex(d, v), FALSE)
    ELSE Ret(d, "ok", v \in getRoots(d))

----------------------------------------------------------------------------
(* The walkers *)

\* The orders in which a range over a map[Vertex]bool can yield its keys.
Perms(S) ==
    {p \in [1 .. Cardinality(S) -> S] :
        \A i, j \in 1 .. Cardinality(S) : i # j => p[i] # p[j]}

\* The loop of walkAncestors and walkDescendants when every vertex is
\* received and no signal is sent: the sequences it can emit, one for each
\* order in which the ranges over the maps yield the vertices.
RECURSIVE walk(_, _, _)
walk(edge, fifo, visited) ==
    IF fifo = <<>> THEN {<<>>}
    ELSE LET top == Head(fifo)
             new == edge[top] \ visited
         IN  UNION {{<<top>> \o rest :
                        rest \in walk(edge, Tail(fifo) \o p, visited \cup new)} :
                    p \in Perms(new)}

\* DAG.walkAncestors, drained
walkAncestors(d, v) ==
    UNION {walk(d.inboundEdge, p, d.inboundEdge[v]) : p \in Perms(d.inboundEdge[v])}

\* DAG.walkDescendants, drained
walkDescendants(d, v) ==
    UNION {walk(d.outboundEdge, p, d.outboundEdge[v]) : p \in Perms(d.outboundEdge[v])}

\* DAG.AncestorsWalker: the call returns once it has started the goroutine
\* that walks.
AncestorsWalker(d, v) ==
    IF saneVertex(d, v) # "ok" THEN Ret(d, saneVertex(d, v), {})
    ELSE [Ret(d, "ok", {}) EXCEPT !.go = 1]

\* DAG.DescendantsWalker
DescendantsWalker(d, v) ==
    IF saneVertex(d, v) # "ok" THEN Ret(d, saneVertex(d, v), {})
    ELSE [Ret(d, "ok", {}) EXCEPT !.go = 1]

\* DAG.GetOrderedAncestors: what the call can return.  It receives until the
\* walker's goroutine has closed the channel, so no goroutine outlives it.
GetOrderedAncestors(d, v) ==
    IF AncestorsWalker(d, v).err # "ok"
    THEN {Ret(d, AncestorsWalker(d, v).err, <<>>)}
    ELSE {Ret(d, "ok", ancestors) : ancestors \in walkAncestors(d, v)}

\* DAG.GetOrderedDescendants: what the call can return.
GetOrderedDescendants(d, v) ==
    IF DescendantsWalker(d, v).err # "ok"
    THEN {Ret(d, DescendantsWalker(d, v).err, <<>>)}
    ELSE {Ret(d, "ok", descendants) : descendants \in walkDescendants(d, v)}

----------------------------------------------------------------------------
(* DescendantsFlow.  Each vertex of the sub-graph of the root has a state, *)
(* a join counter of its completed parents inside the sub-graph and a      *)
(* result slot; the callback of a vertex runs as a worker of its own.      *)

\* The result slot of a vertex whose callback has not returned a result.
NoResult == -1

\* No DescendantsFlow call has been made.
NoFlow ==
    [pc |-> "idle", root |-> Nil, sub |-> {}, st |-> EmptyMap,
     join |-> EmptyMap, slot |-> EmptyMap, seen |-> EmptyMap,
     calls |-> EmptyMap, err |-> "ok", errAt |-> Nil, failedOrder |-> <<>>,
     ret |-> EmptyMap]

\* The int that the examples store in a vertex: 0 in the first one, 1 in the
\* second one, and so on.
Value(v) == v - 1

RECURSIVE SumResults(_)
SumResults(parentResults) ==
    IF parentResults = {} THEN 0
    ELSE LET r == CHOOSE r \in parentResults : TRUE
         IN  r[2] + SumResults(parentResults \ {r})

\* The callback of the examples: its own value plus the sum of the results
\* of the parents.
flowCallback(v, parentResults) == Value(v) + SumResults(parentResults)

\* The sub-graph of a flow with only the root and its children.
flowVerticesOneLevel(d, todo, found) ==
    found \cup todo \cup UNION {GetChildren(d, v).ret : v \in todo}

\* The vertices of the sub-graph: the root and what is reachable from it over
\* the children sets.
RECURSIVE flowVertices(_, _, _)
flowVertices(d, todo, found) ==
    IF todo \subseteq found THEN found
    ELSE flowVertices(d,
                      UNION {GetChildren(d, v).ret : v \in todo \ found},
                      found \cup todo)

\* The parents of v inside the sub-graph.
flowParents(d, f, v) == GetParents(d, v).ret \cap f.sub

\* A join that waits for every parent, inside the sub-graph or not.
flowNeedAllParents(d, f, v) == Cardinality(GetParents(d, v).ret)

\* The number of completed parents that makes v ready.
flowNeed(d, f, v) == Cardinality(flowParents(d, f, v))

\* The call starts: validation of the root, then the transient state.
flowStart(d, root) ==
    IF saneVertex(d, root) # "ok"
    THEN [NoFlow EXCEPT !.pc = "returned", !.root = root,
                        !.err = saneVertex(d, root)]
    ELSE LET sub == flowVertices(d, {root}, {})
         IN  [pc |-> "running", root |-> root, sub |-> sub,
              st |-> [v \in sub |-> IF v = root THEN "ready" ELSE "pending"],
              join |-> [v \in sub |-> 0],
              slot |-> [v \in sub |-> NoResult],
              seen |-> [v \in sub |-> {}],
              calls |-> [v \in d.vertices |-> 0],
              err |-> "ok", errAt |-> Nil, failedOrder |-> <<>>,
              ret |-> EmptyMap]

\* ready -> running: the callback of v is invoked with one pair of parent and
\* result for each parent inside the sub-graph.
flowRun(d, f, v) ==
    [f EXCEPT !.st[v] = "running",
              !.calls[v] = @ + 1,
              !.seen[v] = {<<p, f.slot[p]>> : p \in flowParents(d, f, v)}]

\* A completion that makes a child ready when its first parent completes.
flowDoneReadyOnFirst(d, f, v) ==
    LET children == GetChildren(d, v).ret \cap f.sub
    IN  [f EXCEPT !.st = [x \in f.sub |->
                            IF x = v THEN "done"
                            ELSE IF x \in children /\ f.st[x] = "pending"
                                 THEN "ready"
                                 ELSE f.st[x]],
                  !.slot[v] = flowCallback(v, f.seen[v]),
                  !.join = [x \in f.sub |->
                            IF x \in children THEN f.join[x] + 1 ELSE f.join[x]]]

\* running -> done: the callback of v has returned a result.  The result is
\* published, the join counter of each child in the sub-graph counts it, and
\* a child whose last outstanding parent this was gets ready.
flowDone(d, f, v) ==
    LET children == GetChildren(d, v).ret \cap f.sub
    IN  [f EXCEPT !.st = [x \in f.sub |->
                            IF x = v THEN "done"
                            ELSE IF /\ x \in children
                                    /\ f.st[x] = "pending"
                                    /\ f.join[x] + 1 = flowNeed(d, f, x)
                                 THEN "ready"
                                 ELSE f.st[x]],
                  !.slot[v] = flowCallback(v, f.seen[v]),
                  !.join = [x \in f.sub |->
                            IF x \in children THEN f.join[x] + 1 ELSE f.join[x]]]

\* A failure that overwrites the error of an earlier one.
flowFailKeepsLast(d, f, v) ==
    [f EXCEPT !.st[v] = "failed",
              !.failedOrder = Append(@, v),
              !.err = "CallbackError",
              !.errAt = v]

\* running -> failed: the callback of v has returned an error.  No result is
\* published; the first such error is the error of the call.
flowFail(d, f, v) ==
    [f EXCEPT !.st[v] = "failed",
              !.failedOrder = Append(@, v),
              !.err = IF f.err = "ok" THEN "CallbackError" ELSE @,
              !.errAt = IF f.err = "ok" THEN v ELSE @]

\* A return with the results of the leaves only.
flowReturnLeafs(d, f) ==
    [f EXCEPT !.pc = "returned",
              !.ret = [v \in {x \in f.sub : f.st[x] = "done"
                                            /\ GetChildren(d, x).ret = {}}
                        |-> f.slot[v]]]

\* The call returns, once no worker runs or can run: the results published
\* so far, one for each vertex that is done.
flowReturn(d, f) ==
    [f EXCEPT !.pc = "returned",
              !.ret = [v \in {x \in f.sub : f.st[x] = "done"} |-> f.slot[v]]]

----------------------------------------------------------------------------
(* A walker step by step: the goroutine started by AncestorsWalker or      *)
(* DescendantsWalker, the unbuffered channel vertices, the channel signal  *)
(* with room for one value, and the consumer of the two channels.          *)

\* No walker has been started.
NoWalk ==
    [pc |-> "idle", edge |-> "none", v |-> Nil, fifo |-> <<>>, visited |-> {},
     top |-> Nil, signal |-> 0, closed |-> FALSE, rlock |-> FALSE,
     consumer |-> "none", signalled |-> FALSE, emitted |-> <<>>,
     writer |-> "none"]

\* The adjacency map a walker follows.
walkEdge(d, w) ==
    IF w.edge = "inboundEdge" THEN d.inboundEdge ELSE d.outboundEdge

\* AncestorsWalker / DescendantsWalker after saneVertex: the channels are
\* made and the goroutine is started; the caller is the consumer.
walkGo(w, edge, v) ==
    [w EXCEPT !.pc = "go", !.edge = edge, !.v = v, !.consumer = "receiving"]

\* The goroutine takes the read lock, and walkAncestors / walkDescendants
\* fills fifo and visited from the parents / children of v, which the range
\* yields in the order p.
walkBegin(d, w, p) ==
    [w EXCEPT !.pc = "loop", !.rlock = TRUE, !.fifo = p,
              !.visited = walkEdge(d, w)[w.v]]

\* A loop that appends the parents / children of top without looking at
\* visited.
walkLoopNoVisited(d, w, p) ==
    IF w.fifo = <<>> THEN [w EXCEPT !.pc = "return"]
    ELSE LET old == walkEdge(d, w)[Head(w.fifo)] \cap w.visited
         IN  [w EXCEPT !.pc = "select",
                       !.top = Head(w.fifo),
                       !.fifo = Tail(w.fifo) \o p
                                    \o (CHOOSE q \in Perms(old) : TRUE),
                       !.visited = @ \cup walkEdge(d, w)[Head(w.fifo)]]

\* A loop that puts the new vertices in front of the fifo.
walkLoopInFront(d, w, p) ==
    IF w.fifo = <<>> THEN [w EXCEPT !.pc = "return"]
    ELSE [w EXCEPT !.pc = "select",
                   !.top = Head(w.fifo),
                   !.fifo = p \o Tail(w.fifo),
                   !.visited = @ \cup walkEdge(d, w)[Head(w.fifo)]]

\* The head of the for loop: return on an empty fifo, else take top from the
\* fifo and append its parents / children not yet visited, in the order p.
walkLoop(d, w, p) ==
    IF w.fifo = <<>> THEN [w EXCEPT !.pc = "return"]
    ELSE [w EXCEPT !.pc = "select",
                   !.top = Head(w.fifo),
                   !.fifo = Tail(w.fifo) \o p,
                   !.visited = @ \cup walkEdge(d, w)[Head(w.fifo)]]

\* The select: with a value in signal, receive it and return; else take the
\* default branch, the send of top on vertices.  The receive lets a sender
\* that waits for room in signal put its value there.
walkSelect(w) ==
    IF w.signal > 0
    THEN [w EXCEPT !.pc = "return",
                   !.signal = IF w.consumer = "blocked" THEN @ ELSE @ - 1,
                   !.consumer = IF @ = "blocked" THEN "stopped" ELSE @]
    ELSE [w EXCEPT !.pc = "send"]

\* The send on the unbuffered channel meets a receive of the consumer.
walkSend(w) ==
    [w EXCEPT !.pc = "loop", !.emitted = Append(@, w.top)]

\* After the walk: the goroutine releases the read lock and closes both
\* channels.
walkEnd(w) ==
    [w EXCEPT !.pc = "done", !.rlock = FALSE, !.closed = TRUE]

\* The consumer's "signal <- true; break".  A send on a closed channel
\* panics; the channel has room for the one value.
consumerSignal(w) ==
    IF w.closed THEN [w EXCEPT !.consumer = "panic"]
    ELSE [w EXCEPT !.consumer = "stopped", !.signalled = TRUE,
                   !.signal = @ + 1]

\* A "signal <- true" of a consumer that has stopped receiving: once more
\* after "signal <- true; break", or for the first time after it has left
\* or finished the range over vertices.  The send panics on a closed channel
\* and waits while the one place in the channel is taken.
consumerSignalAgain(w) ==
    IF w.closed THEN [w EXCEPT !.consumer = "panic"]
    ELSE IF w.signal > 0 THEN [w EXCEPT !.consumer = "blocked"]
    ELSE [w EXCEPT !.signalled = TRUE, !.signal = @ + 1]

----------------------------------------------------------------------------
(* DFSWalk, BFSWalk and OrderedWalk step by step: the list of vertices     *)
(* still to look at, the vertices marked as visited and the calls of the   *)
(* visitor so far.                                                          *)

\* No walk with a visitor has been called.
NoVisit == [pc |-> "idle", op |-> "", todo |-> <<>>, visited |-> {}, visits |-> <<>>]

\* The id under which the graph knows the vertex v.
idOf(d, v) == CHOOSE id \in DOMAIN d.vertexIds : d.vertexIds[id] = v

\* vertexIDs: the vertices of a set in the order of their ids.
RECURSIVE vertexIDs(_, _)
vertexIDs(d, S) ==
    IF S = {} THEN <<>>
    ELSE LET first == CHOOSE v \in S : \A w \in S : idOf(d, v) <= idOf(d, w)
         IN  <<first>> \o vertexIDs(d, S \ {first})

\* The walk starts with the roots.
visitBegin(d, op) ==
    [pc |-> "walk", op |-> op, todo |-> vertexIDs(d, getRoots(d)),
     visited |-> {}, visits |-> <<>>]

\* The visitor is called for v and the children of v are put on the list: in
\* front of it for DFSWalk, behind it for the other walks.
visitCall(d, vi, v) ==
    LET children == vertexIDs(d, d.outboundEdge[v])
    IN  [vi EXCEPT !.visited = @ \cup {v},
                   !.visits = Append(@, v),
                   !.todo = IF vi.op = "DFSWalk" THEN children \o Tail(@)
                                                 ELSE Tail(@) \o children]

\* A walk that calls the visitor for every vertex it takes from the list.
visitLoopNoVisited(d, vi) ==
    visitCall(d, vi, Head(vi.todo))

\* An OrderedWalk that does not wait for the parents of a vertex.
visitLoopNoWait(d, vi) ==
    IF Head(vi.todo) \in vi.visited THEN [vi EXCEPT !.todo = Tail(@)]
    ELSE visitCall(d, vi, Head(vi.todo))

\* One turn of the loop: the next vertex is taken from the list and skipped
\* when it is marked as visited; OrderedWalk puts it back at the end of the
\* list while one of its parents is not visited.
visitLoop(d, vi) ==
    LET v == Head(vi.todo)
    IN  IF v \in vi.visited THEN [vi EXCEPT !.todo = Tail(@)]
        ELSE IF vi.op = "OrderedWalk" /\ ~(d.inboundEdge[v] \subseteq vi.visited)
        THEN [vi EXCEPT !.todo = Append(Tail(@), v)]
        ELSE visitCall(d, vi, v)

\* No goroutine calls a mutating method.
NoCallers == <<>>

\* No bytes have been marshalled or handed to UnmarshalJSON.
NoData == <<>>

\* newDMutex: no cMutex, and globalMutex unlocked (0, else its holder).
newDMutex == [mutexes |-> EmptyMap, globalMutex |-> 0]

\* muDAG with no reader and no writer.
NoLock == [readers |-> 0, writer |-> "none"]

\* No query has returned a collection.
NoReturn == [op |-> "", of |-> "none", v |-> Nil, val |-> {}]

----------------------------------------------------------------------------
(* MarshalJSON and UnmarshalJSON.  The bytes are a sequence of tokens: a    *)
(* key of the JSON object and the value that follows it.                    *)

\* DFSWalk run to its end: the calls of the visitor in their order.
RECURSIVE visitAll(_, _)
visitAll(d, vi) ==
    IF vi.todo = <<>> THEN vi.visits ELSE visitAll(d, visitLoop(d, vi))

\* storableDAG: the list of (id, value) and the list of (srcID, dstID).
NoStorable == [vs |-> <<>>, es |-> <<>>]

\* A visitor that stores the edge to the first child only.
marshalVisitFirstChild(d, st, v) ==
    LET srcID == idOf(d, v)
        ids == vertexIDs(d, d.outboundEdge[v])
    IN  [vs |-> Append(st.vs, <<srcID, v>>),
         es |-> st.es \o [k \in 1 .. (IF ids = <<>> THEN 0 ELSE 1) |->
                            <<srcID, idOf(d, ids[k])>>]]

\* marshalVisitor.Visit
marshalVisit(d, st, v) ==
    LET srcID == idOf(d, v)
        ids == vertexIDs(d, d.outboundEdge[v])
    IN  [vs |-> Append(st.vs, <<srcID, v>>),
         es |-> st.es \o [k \in 1 .. Len(ids) |-> <<srcID, idOf(d, ids[k])>>]]

\* The visitor called for the vertices of visits, one after the other.
RECURSIVE marshalAll(_, _, _)
marshalAll(d, st, visits) ==
    IF visits = <<>> THEN st
    ELSE marshalAll(d, marshalVisit(d, st, Head(visits)), Tail(visits))

\* One key of a JSON object with its value; the keys "vs" and "es" are
\* followed by a list, which the tokens after them are.
Tok(k, x) == [k |-> k, x |-> x]

\* The objects of a list, each with the keys k1 and k2.
RECURSIVE jsonList(_, _, _)
jsonList(seq, k1, k2) ==
    IF seq = <<>> THEN <<>>
    ELSE <<Tok(k1, Head(seq)[1]), Tok(k2, Head(seq)[2])>>
            \o jsonList(Tail(seq), k1, k2)

\* json.Marshal of a storableDAG
jsonMarshal(st) ==
    <<Tok("vs", 0)>> \o jsonList(st.vs, "i", "v")
        \o <<Tok("es", 0)>> \o jsonList(st.es, "s", "d")

\* DAG.MarshalJSON
MarshalJSON(d) ==
    Ret(d, "ok", jsonMarshal(marshalAll(d, NoStorable,
                                visitAll(d, visitBegin(d, "DFSWalk")))))

\* Where the list of the edges begins.
esAt(data) == CHOOSE p \in DOMAIN data : data[p].k = "es"

\* json.Unmarshal returns no error: the bytes are the two lists, of objects
\* with the keys of a vertex and of an edge.
jsonWellFormed(data) ==
    /\ Len(data) >= 2
    /\ data[1].k = "vs"
    /\ Cardinality({p \in DOMAIN data : data[p].k = "es"}) = 1
    /\ esAt(data) % 2 = 0
    /\ (Len(data) - esAt(data)) % 2 = 0
    /\ \A j \in 1 .. ((esAt(data) - 2) \div 2) :
            data[2 * j].k = "i" /\ data[2 * j + 1].k = "v"
    /\ \A j \in 1 .. ((Len(data) - esAt(data)) \div 2) :
            data[esAt(data) + 2 * j - 1].k = "s" /\ data[esAt(data) + 2 * j].k = "d"

\* json.Unmarshal into a StorableDAG
jsonUnmarshal(data) ==
    [vs |-> [j \in 1 .. ((esAt(data) - 2) \div 2) |->
                <<data[2 * j].x, data[2 * j + 1].x>>],
     es |-> [j \in 1 .. ((Len(data) - esAt(data)) \div 2) |->
                <<data[esAt(data) + 2 * j - 1].x, data[esAt(data) + 2 * j].x>>]]

\* NewDAG, where the values of vs may become vertices.
newDAG(vs) ==
    [NewDAG EXCEPT !.inboundEdge = [x \in Vertex \cup vs |-> {}],
                   !.outboundEdge = [x \in Vertex \cup vs |-> {}]]

\* DAG.AddVertexByID
AddVertexByID(d, id, v) ==
    IF v = Nil THEN Ret(d, "VertexNilError", {})
    ELSE IF v \in d.vertices THEN Ret(d, "VertexDuplicateError", {})
    ELSE IF id \in DOMAIN d.vertexIds THEN Ret(d, "IdDuplicateError", {})
    ELSE Ret([d EXCEPT !.vertices = @ \cup {v}, !.vertexIds = Put(@, id, v)],
             "ok", {})

\* DAG.AddEdge of two ids, as UnmarshalJSON calls it.
AddEdgeByID(d, srcID, dstID) ==
    IF srcID = EmptyId \/ dstID = EmptyId THEN Ret(d, "IDEmptyError", {})
    ELSE IF srcID \notin DOMAIN d.vertexIds \/ dstID \notin DOMAIN d.vertexIds
    THEN Ret(d, "IDUnknownError", {})
    ELSE IF srcID = dstID THEN Ret(d, "SrcDstEqualError", {})
    ELSE IF isEdge(d, d.vertexIds[srcID], d.vertexIds[dstID])
    THEN Ret(d, "EdgeDuplicateError", {})
    ELSE addEdgeKnown(d, d.vertexIds[srcID], d.vertexIds[dstID])

\* UnmarshalJSON, "for _, v := range wd.Vertices()": what AddVertexByID
\* returns is dropped.
RECURSIVE addVertices(_, _)
addVertices(d, vs) ==
    IF vs = <<>> THEN d
    ELSE addVertices(AddVertexByID(d, Head(vs)[1], Head(vs)[2]).d, Tail(vs))

\* UnmarshalJSON, "for _, e := range wd.Edges()": what AddEdge returns is
\* dropped.
RECURSIVE addEdges(_, _)
addEdges(d, es) ==
    IF es = <<>> THEN d
    ELSE addEdges(AddEdgeByID(d, Head(es)[1], Head(es)[2]).d, Tail(es))

\* The function UnmarshalJSON: the new DAG and the error; d is returned for
\* the nil DAG that comes with an error.
UnmarshalJSON(d, data) ==
    IF ~jsonWellFormed(data) THEN Ret(d, "SyntaxError", {})
    ELSE LET wd == jsonUnmarshal(data)
             dag == newDAG({wd.vs[j][2] : j \in DOMAIN wd.vs})
         IN  Ret(addEdges(addVertices(dag, wd.vs), wd.es), "ok", {})

----------------------------------------------------------------------------
(* GetDescendantsGraph and GetAncestorsGraph: the vertex and its relatives  *)
(* are copied into a new DAG, vertex by vertex and edge by edge.            *)

\* The adjacency map of the relatives: the parents when asc, else the
\* children.
relativesOf(d, v, asc) == IF asc THEN d.inboundEdge[v] ELSE d.outboundEdge[v]

\* The edge between v and its relative in the new DAG.
relativeEdge(d, new, v, relative, asc) ==
    IF asc THEN AddEdgeByID(new, idOf(d, relative), idOf(d, v)).d
           ELSE AddEdgeByID(new, idOf(d, v), idOf(d, relative)).d

RECURSIVE relativesRec(_, _, _, _)
RECURSIVE relativesLoopTree(_, _, _, _, _)
RECURSIVE relativesLoop(_, _, _, _, _)

\* A copy that adds no edge to a relative that is already in the new DAG.
relativesLoopTree(d, new, v, relatives, asc) ==
    IF relatives = <<>> THEN new
    ELSE LET relative == Head(relatives)
         IN  IF relative \in new.vertices
             THEN relativesLoopTree(d, new, v, Tail(relatives), asc)
             ELSE relativesLoopTree(d,
                    relativeEdge(d, relativesRec(d, new, relative, asc),
                                 v, relative, asc),
                    v, Tail(relatives), asc)

\* For each relative of v: it is copied with its own relatives, unless the
\* new DAG has it already, and the edge between it and v is added.
relativesLoop(d, new, v, relatives, asc) ==
    IF relatives = <<>> THEN new
    ELSE LET relative == Head(relatives)
             copied == IF relative \in new.vertices THEN new
                       ELSE relativesRec(d, new, relative, asc)
         IN  relativesLoop(d, relativeEdge(d, copied, v, relative, asc),
                           v, Tail(relatives), asc)

\* v is copied into the new DAG under its id, then its relatives are.
relativesRec(d, new, v, asc) ==
    relativesLoop(d, AddVertexByID(new, idOf(d, v), v).d, v,
                  vertexIDs(d, relativesOf(d, v, asc)), asc)

\* The new DAG and the id of the vertex in it, or the error for the id.
getRelativesGraph(d, id, asc) ==
    IF id = EmptyId THEN Ret(d, "IDEmptyError", {})
    ELSE IF id \notin DOMAIN d.vertexIds THEN Ret(d, "IDUnknownError", {})
    ELSE Ret(d, "ok",
             [d |-> relativesRec(d, newDAG(d.vertices), d.vertexIds[id], asc),
              id |-> id])

\* DAG.GetDescendantsGraph
GetDescendantsGraph(d, id) == getRelativesGraph(d, id, FALSE)

\* DAG.GetAncestorsGraph
GetAncestorsGraph(d, id) == getRelativesGraph(d, id, TRUE)

----------------------------------------------------------------------------
(* Goroutines that call AddVertex and AddEdge at once.  Each call locks     *)
(* muDAG, validates, inserts and unlocks when it returns.                   *)

\* The local variables descendants and ancestors of AddEdge before they are
\* assigned.
NoCopies == [descendants |-> {}, ancestors |-> {}]

\* A goroutine that has not made its call.
NoCall == [pc |-> "idle", op |-> "", src |-> Nil, dst |-> Nil, err |-> "",
           copies |-> NoCopies]

\* The goroutines before any call: the graph they start on, muDAG (0 when it
\* is not held) and each goroutine's call.
callersOn(d) == [start |-> d, mu |-> 0, ps |-> [p \in 1 .. NumCallers |-> NoCall]]

\* A lock that does not wait for its holder.
muUnlockedAlways(cs) == TRUE

\* d.muDAG.Lock() returns when no goroutine holds the lock.
muUnlocked(cs) == cs.mu = 0

\* DAG.AddEdge up to "check for circles": the struct, the error and the
\* copies of the closures.
addEdgeCheck(d, src, dst) ==
    IF src = Nil \/ dst = Nil THEN Ret(d, "VertexNilError", NoCopies)
    ELSE IF src = dst THEN Ret(d, "SrcDstEqualError", NoCopies)
    ELSE LET s == ensureVertex(d, src)
             t == ensureVertex(s.d, dst)
         IN  IF s.err # "ok" THEN Ret(s.d, s.err, NoCopies)
             ELSE IF t.err # "ok" THEN Ret(t.d, t.err, NoCopies)
             ELSE IF isEdge(t.d, src, dst)
             THEN Ret(t.d, "EdgeDuplicateError", NoCopies)
             ELSE LET d1 == getDescendants(t.d, dst)
                      d2 == getAncestors(d1, src)
                      copies == [descendants |-> d1.descendantsCache[dst],
                                 ancestors |-> d2.ancestorsCache[src]]
                  IN  IF createsLoop(copies.descendants, src, dst)
                      THEN Ret(d2, "EdgeLoopError", copies)
                      ELSE Ret(d2, "ok", copies)

\* DAG.AddEdge from "prepare d.outbound[src]" on.
addEdgeInsert(d, src, dst, copies) ==
    [d EXCEPT !.outboundEdge[src] = @ \cup {dst},
              !.inboundEdge[dst] = @ \cup {src},
              !.ancestorsCache = invalidate(@, copies.descendants, dst),
              !.descendantsCache = invalidate(@, copies.ancestors, src)]

\* The validation of the call c on the struct d.
callerCheck(d, c) ==
    IF c.op = "AddVertex" THEN Ret(d, AddVertex(d, c.src).err, NoCopies)
    ELSE addEdgeCheck(d, c.src, c.dst)

\* The insertion of the call c into the struct d.
callerInsert(d, c) ==
    IF c.op = "AddVertex" THEN addVertex(d, c.src)
    ELSE addEdgeInsert(d, c.src, c.dst, c.copies)

----------------------------------------------------------------------------
(* dMutex: one cMutex per locked key.  mutex and globalMutex hold 0 when    *)
(* unlocked, else the goroutine that locked them.                           *)

\* new(cMutex)
newCMutex == [mutex |-> 0, count |-> 0]

\* d.globalMutex.Lock() returns when no goroutine holds globalMutex.
globalMutexUnlocked(p) == p.globalMutex = 0

\* dMutex.lock and dMutex.unlock, "acquire global lock", by goroutine c.
lockGlobal(p, c) == [p EXCEPT !.globalMutex = c]

\* A lock that goes to wait on the instance mutex with globalMutex held.
lockCountKeepGlobal(p, c, i) ==
    LET m == IF i \in DOMAIN p.mutexes THEN p.mutexes[i] ELSE newCMutex
    IN  [p EXCEPT !.mutexes = Put(@, i, [m EXCEPT !.count = @ + 1])]

\* dMutex.lock from "if there is no cMutex for i, create it" to "release the
\* global lock": the count of the cMutex of i goes up by one.
lockCount(p, c, i) ==
    LET m == IF i \in DOMAIN p.mutexes THEN p.mutexes[i] ELSE newCMutex
    IN  [mutexes |-> Put(p.mutexes, i, [m EXCEPT !.count = @ + 1]),
         globalMutex |-> 0]

\* An instance mutex that never makes its caller wait.
mutexUnlockedAlways(p, i) == TRUE

\* (*mutex).Lock() returns when no goroutine holds the mutex of i.
mutexUnlocked(p, i) == p.mutexes[i].mutex = 0

\* dMutex.lock, "and wait on the instance mutex".
lockMutex(p, c, i) == [p EXCEPT !.mutexes[i].mutex = c]

\* dMutex.unlock, "unlock instance mutex".
unlockMutex(p, c, i) == [p EXCEPT !.mutexes[i].mutex = 0]

\* An unlock that deletes the cMutex whatever its count.
unlockCountDeleteAlways(p, c, i) ==
    [mutexes |-> Del(p.mutexes, i), globalMutex |-> 0]

\* dMutex.unlock from "decrease the count" to "release the global lock".
unlockCount(p, c, i) ==
    LET count == p.mutexes[i].count - 1
    IN  [mutexes |-> IF count = 0 THEN Del(p.mutexes, i)
                     ELSE [p.mutexes EXCEPT ![i].count = count],
         globalMutex |-> 0]

\* Goroutines that lock and unlock keys of one dMutex: none has called yet.
NoLocker == [pc |-> "idle", i |-> Nil]

----------------------------------------------------------------------------
(* muDAG, a sync.RWMutex: the number of goroutines that hold the read lock  *)
(* and the state of the writer.  A writer that waits in Lock() makes every  *)
(* later RLock() wait behind it.                                            *)

\* d.muDAG.RLock() returns when no writer holds or waits for the lock.
muRLockable(mu) == mu.writer = "none"

\* d.muDAG.RLock()
muRLock(mu) == [mu EXCEPT !.readers = @ + 1]

\* d.muDAG.RUnlock()
muRUnlock(mu) == [mu EXCEPT !.readers = @ - 1]

\* d.muDAG.Lock() is called: from here on new readers wait.
muLockCall(mu) == [mu EXCEPT !.writer = "waiting"]

\* A write lock that does not wait for the readers.
muLockableAlways(mu) == TRUE

\* d.muDAG.Lock() returns when no goroutine holds the read lock.
muLockable(mu) == mu.readers = 0

\* d.muDAG.Unlock()
muUnlock(mu) == [mu EXCEPT !.writer = "none"]

----------------------------------------------------------------------------
(* getAncestors and getDescendants statement by statement, as a goroutine   *)
(* runs them next to others.  A goroutine has a stack of calls, the         *)
(* innermost last; asc is TRUE in getAncestors.                             *)

\* A call of getAncestors(v) or getDescendants(v) at its first statement.
closureCall(asc, v) ==
    [asc |-> asc, v |-> v, pc |-> "check", todo |-> {}, cache |-> {},
     ret |-> {}]

\* d.ancestorsCache or d.descendantsCache
cacheOf(d, asc) == IF asc THEN d.ancestorsCache ELSE d.descendantsCache

\* d.inboundEdge[v] or d.outboundEdge[v], what the loop ranges over.
closureRelatives(d, asc, v) ==
    IF asc THEN d.inboundEdge[v] ELSE d.outboundEdge[v]

\* "remember the collected descendents": d.descendantsCache[v] = cache
closureStore(d, asc, v, cache) ==
    IF asc THEN [d EXCEPT !.ancestorsCache = Put(@, v, cache)]
           ELSE [d EXCEPT !.descendantsCache = Put(@, v, cache)]

\* The innermost call returns ret: the calling loop merges ret and the
\* relative into its local cache, and the outermost call leaves no call.
closureReturn(st, ret) ==
    LET n == Len(st)
    IN  IF n = 1 THEN <<>>
        ELSE Append(SubSeq(st, 1, n - 2),
                    [st[n - 1] EXCEPT !.cache = @ \cup ret \cup {st[n].v}])

\* The innermost call of st waits: for globalMutex in lock and unlock, for
\* the mutex of its vertex in lock.
closureWaits(p, st) ==
    LET f == st[Len(st)]
    IN  \/ f.pc \in {"lock", "unlock"} /\ ~globalMutexUnlocked(p)
        \/ f.pc = "wait" /\ ~mutexUnlocked(p, f.v)

\* One statement of the innermost call of the goroutine c: the struct, the
\* dMutex, the stack and what the outermost call returned.  In the loop,
\* relative is the one that range yields next.
closureStep(d, p, c, st, relative) ==
    LET n == Len(st)
        f == st[n]
        at(pc) == [st EXCEPT ![n].pc = pc]
        same == [d |-> d, p |-> p, st |-> st, ret |-> {}]
    IN  IF f.pc = "check"
        THEN IF f.v \in DOMAIN cacheOf(d, f.asc)
             THEN [same EXCEPT !.st = closureReturn(st, cacheOf(d, f.asc)[f.v]),
                               !.ret = cacheOf(d, f.asc)[f.v]]
             ELSE [same EXCEPT !.st = at("lock")]
        ELSE IF f.pc = "lock"
        THEN [same EXCEPT !.p = lockGlobal(p, c), !.st = at("count")]
        ELSE IF f.pc = "count"
        THEN [same EXCEPT !.p = lockCount(p, c, f.v), !.st = at("wait")]
        ELSE IF f.pc = "wait"
        THEN [same EXCEPT !.p = lockMutex(p, c, f.v), !.st = at("recheck")]
        ELSE IF f.pc = "recheck"
        THEN IF f.v \in DOMAIN cacheOf(d, f.asc)
             THEN [same EXCEPT !.st = [st EXCEPT ![n].pc = "unlock",
                                           ![n].ret = cacheOf(d, f.asc)[f.v]]]
             ELSE [same EXCEPT !.st =
                        [st EXCEPT ![n].pc = "loop",
                                   ![n].todo = closureRelatives(d, f.asc, f.v)]]
        ELSE IF f.pc = "loop"
        THEN IF f.todo = {}
             THEN [same EXCEPT !.st = at("store")]
             ELSE [same EXCEPT !.st = Append([st EXCEPT ![n].todo = @ \ {relative}],
                                             closureCall(f.asc, relative))]
        ELSE IF f.pc = "store"
        THEN [same EXCEPT !.d = closureStore(d, f.asc, f.v, f.cache),
                          !.st = [st EXCEPT ![n].pc = "unlock",
                                            ![n].ret = f.cache]]
        ELSE IF f.pc = "unlock"
        THEN [same EXCEPT !.p = lockGlobal(p, c), !.st = at("release")]
        ELSE IF f.pc = "release"
        THEN [same EXCEPT !.p = unlockMutex(p, c, f.v), !.st = at("uncount")]
        ELSE [same EXCEPT !.p = unlockCount(p, c, f.v),
                          !.st = closureReturn(st, f.ret),
                          !.ret = f.ret]

\* A goroutine that has not called GetAncestors or GetDescendants: its call,
\* the stack, the edges when RLock returned, and what the call returned.
NoQuery ==
    [pc |-> "idle", asc |-> FALSE, v |-> Nil, st |-> <<>>, seen |-> <<>>,
     err |-> "", ret |-> {}]

\* The goroutine that calls the mutating methods has not called.
NoMutation == [pc |-> "idle", op |-> "", src |-> Nil, dst |-> Nil]

\* The mutating method the call w stands for, on the struct d.
mutation(d, w) ==
    IF w.op = "AddEdge" THEN AddEdge(d, w.src, w.dst)
    ELSE IF w.op = "DeleteEdge" THEN DeleteEdge(d, w.src, w.dst)
    ELSE DeleteVertex(d, w.src)

----------------------------------------------------------------------------
(* GetOrderedAncestors and GetOrderedDescendants statement by statement:    *)
(* the caller takes the read lock, calls AncestorsWalker or                 *)
(* DescendantsWalker, which takes and releases it again and starts the      *)
(* goroutine, and receives from vertices until the goroutine closes it.     *)

\* No GetOrderedAncestors or GetOrderedDescendants call has been made, and no
\* mutating method has been called.
NoOrdered ==
    [pc |-> "idle", edge |-> "none", v |-> Nil, err |-> "", ret |-> <<>>,
     n |-> 0]

\* The walker call of GetOrderedAncestors / GetOrderedDescendants, once its
\* own d.muDAG.RLock() has returned.
orderedWalker(d, o) ==
    IF o.edge = "inboundEdge" THEN AncestorsWalker(d, o.v)
                              ELSE DescendantsWalker(d, o.v)

\* "for v := range vertices" ends when the channel is closed; the call
\* returns what it has received.
orderedReturn(o, w) == [o EXCEPT !.pc = "done", !.ret = w.emitted]

----------------------------------------------------------------------------
(* Maps as the values Go hands around: a map value refers to a map.  It is  *)
(* one of the maps of the struct (of names the field, v the key of the      *)
(* inner map), or a map of its own with the keys val.                       *)

\* The map value of a field of the struct.
mapOf(of, v) == [op |-> "", of |-> of, v |-> v, val |-> {}]

\* The keys of the map that the map value m refers to.
keysOf(d, m) ==
    IF m.of = "own" THEN m.val
    ELSE IF m.of = "vertices" THEN d.vertices
    ELSE IF m.of = "inboundEdge" THEN d.inboundEdge[m.v]
    ELSE IF m.of = "outboundEdge" THEN d.outboundEdge[m.v]
    ELSE IF m.of = "ancestorsCache" THEN d.ancestorsCache[m.v]
    ELSE d.descendantsCache[m.v]

\* A copyMap that returns the map it got.
copyMapSame(d, in) == in

\* copyMap: a new map with the keys of in.
copyMap(d, in) == [in EXCEPT !.of = "own", !.val = keysOf(d, in)]

\* GetVertices, GetParents, GetChildren, GetAncestors and GetDescendants:
\* the struct, the error and the map value the call returns.
returnedMap(d, op, v) ==
    IF op = "GetVertices" THEN Ret(d, "ok", copyMap(d, mapOf("vertices", Nil)))
    ELSE IF saneVertex(d, v) # "ok" THEN Ret(d, saneVertex(d, v), NoReturn)
    ELSE IF op = "GetParents"
    THEN Ret(d, "ok", copyMap(d, mapOf("inboundEdge", v)))
    ELSE IF op = "GetChildren"
    THEN Ret(d, "ok", copyMap(d, mapOf("outboundEdge", v)))
    ELSE IF op = "GetAncestors"
    THEN Ret(getAncestors(d, v), "ok",
             copyMap(getAncestors(d, v), mapOf("ancestorsCache", v)))
    ELSE Ret(getDescendants(d, v), "ok",
             copyMap(getDescendants(d, v), mapOf("descendantsCache", v)))

\* The caller's "m[key] = true" (put) or "delete(m, key)" on the map value m:
\* the struct and the map value after it.
writeMap(d, m, key, put) ==
    LET keys == IF put THEN keysOf(d, m) \cup {key} ELSE keysOf(d, m) \ {key}
    IN  IF m.of = "own" THEN [d |-> d, m |-> [m EXCEPT !.val = keys]]
        ELSE IF m.of = "vertices"
        THEN [d |-> [d EXCEPT !.vertices = keys], m |-> m]
        ELSE IF m.of = "inboundEdge"
        THEN [d |-> [d EXCEPT !.inboundEdge[m.v] = keys], m |-> m]
        ELSE IF m.of = "outboundEdge"
        THEN [d |-> [d EXCEPT !.outboundEdge[m.v] = keys], m |-> m]
        ELSE IF m.of = "ancestorsCache"
        THEN [d |-> [d EXCEPT !.ancestorsCache[m.v] = keys], m |-> m]
        ELSE [d |-> [d EXCEPT !.descendantsCache[m.v] = keys], m |-> m]

----------------------------------------------------------------------------
(* The calls as steps of the program *)

\* A call of method op that returned r.
Step(op, r) ==
    /\ vertices' = r.d.vertices
    /\ vertexIds' = r.d.vertexIds
    /\ inboundEdge' = r.d.inboundEdge
    /\ outboundEdge' = r.d.outboundEdge
    /\ ancestorsCache' = r.d.ancestorsCache
    /\ descendantsCache' = r.d.descendantsCache
    /\ walkers' = walkers + r.go
    /\ UNCHANGED <<flow, walker, visit, callers, stored, verticesLocked,
                   muDAG, returned>>
    /\ last' = [op |-> op, err |-> r.err,
                grew |-> Cardinality(r.d.vertices) - Cardinality(vertices)]

CallAddVertex == \E v \in Arg : Step("AddVertex", AddVertex(D, v))

CallAddEdge == \E src, dst \in Arg : Step("AddEdge", AddEdge(D, src, dst))

CallDeleteVertex == \E v \in Arg : Step("DeleteVertex", DeleteVertex(D, v))

CallDeleteEdge == \E src, dst \in Arg : Step("DeleteEdge", DeleteEdge(D, src, dst))

CallReduceTransitively == Step("ReduceTransitively", ReduceTransitively(D))

CallFlushCaches == Step("FlushCaches", FlushCaches(D))

CallGetDescendants == \E v \in Arg : Step("GetDescendants", GetDescendants(D, v))

CallGetAncestors == \E v \in Arg : Step("GetAncestors", GetAncestors(D, v))

CallGetVertex == \E id \in IdArg : Step("GetVertex", GetVertex(D, id))

CallIsEdge == \E src, dst \in Arg : Step("IsEdge", IsEdge(D, src, dst))

CallGetOrder == Step("GetOrder", GetOrder(D))

CallGetSize == Step("GetSize", GetSize(D))

CallGetLeafs == Step("GetLeafs", GetLeafs(D))

CallGetRoots == Step("GetRoots", GetRoots(D))

CallGetVertices == Step("GetVertices", GetVertices(D))

CallGetParents == \E v \in Arg : Step("GetParents", GetParents(D, v))

CallGetChildren == \E v \in Arg : Step("GetChildren", GetChildren(D, v))

CallIsLeaf == \E v \in Arg : Step("IsLeaf", IsLeaf(D, v))

CallIsRoot == \E v \in Arg : Step("IsRoot", IsRoot(D, v))

CallGetOrderedAncestors ==
    \E v \in Arg : \E r \in GetOrderedAncestors(D, v) :
        Step("GetOrderedAncestors", r)

CallGetOrderedDescendants ==
    \E v \in Arg : \E r \in GetOrderedDescendants(D, v) :
        Step("GetOrderedDescendants", r)

CallAncestorsWalker ==
    \E v \in Arg :
        /\ walkers + AncestorsWalker(D, v).go <= MaxWalkers
        /\ Step("AncestorsWalker", AncestorsWalker(D, v))

CallDescendantsWalker ==
    \E v \in Arg :
        /\ walkers + DescendantsWalker(D, v).go <= MaxWalkers
        /\ Step("DescendantsWalker", DescendantsWalker(D, v))

\* The goroutine of a walker has emitted its last vertex, or has received the
\* signal, and ends.
WalkerEnds ==
    /\ walkers > 0
    /\ walkers' = walkers - 1
    /\ UNCHANGED <<vertices, vertexIds, inboundEdge, outboundEdge,
                   ancestorsCache, descendantsCache, flow, walker, visit,
                   callers, stored, verticesLocked,
                   muDAG, returned, last>>

Init ==
    /\ vertices = NewDAG.vertices
    /\ vertexIds = NewDAG.vertexIds
    /\ inboundEdge = NewDAG.inboundEdge
    /\ outboundEdge = NewDAG.outboundEdge
    /\ ancestorsCache = NewDAG.ancestorsCache
    /\ descendantsCache = NewDAG.descendantsCache
    /\ walkers = 0
    /\ flow = NoFlow
    /\ walker = NoWalk
    /\ visit = NoVisit
    /\ callers = NoCallers
    /\ stored = NoData
    /\ verticesLocked = newDMutex
    /\ muDAG = NoLock
    /\ returned = NoReturn
    /\ last = [op |-> "NewDAG", err |-> "ok", grew |-> 0]

Next ==
    \/ CallAddVertex
    \/ CallAddEdge
    \/ CallDeleteVertex
    \/ CallDeleteEdge
    \/ CallReduceTransitively
    \/ CallFlushCaches
    \/ CallGetDescendants
    \/ CallGetAncestors

Spec == Init /\ [][Next]_vars

----------------------------------------------------------------------------
(* The queries, on graphs built the way the tests of the package build     *)
(* theirs.                                                                  *)

\* The struct after one AddEdge call for each pair of edges, in order.
RECURSIVE build(_, _)
build(d, edges) ==
    IF edges = <<>> THEN d
    ELSE build(AddEdge(d, Head(edges)[1], Head(edges)[2]).d, Tail(edges))

Builds ==
    {build(NewDAG, edges) :
        edges \in {<<>>,
                   <<<<1, 2>>>>,
                   <<<<1, 2>>, <<2, 3>>>>,
                   <<<<1, 2>>, <<2, 3>>, <<1, 3>>>>,
                   <<<<2, 3>>, <<4, 3>>>>}}

InitQuery ==
    \E d \in Builds :
        /\ vertices = d.vertices
        /\ vertexIds = d.vertexIds
        /\ inboundEdge = d.inboundEdge
        /\ outboundEdge = d.outboundEdge
        /\ ancestorsCache = d.ancestorsCache
        /\ descendantsCache = d.descendantsCache
        /\ walkers = 0
        /\ flow = NoFlow
        /\ walker = NoWalk
        /\ visit = NoVisit
        /\ callers = NoCallers
        /\ stored = NoData
        /\ verticesLocked = newDMutex
        /\ muDAG = NoLock
        /\ returned = NoReturn
        /\ last = [op |-> "build", err |-> "ok", grew |-> Cardinality(d.vertices)]

NextQuery ==
    \/ CallGetVertex
    \/ CallIsEdge
    \/ CallGetOrder
    \/ CallGetSize
    \/ CallGetLeafs
    \/ CallGetRoots
    \/ CallGetVertices
    \/ CallGetParents
    \/ CallGetChildren
    \/ CallIsLeaf
    \/ CallIsRoot
    \/ CallGetDescendants
    \/ CallGetAncestors
    \/ CallGetOrderedAncestors
    \/ CallGetOrderedDescendants
    \/ CallAncestorsWalker
    \/ CallDescendantsWalker
    \/ WalkerEnds
    \/ CallFlushCaches

SpecQuery == InitQuery /\ [][NextQuery]_vars

----------------------------------------------------------------------------
(* DescendantsFlow on the graphs of the tests and of the examples: one     *)
(* call, its workers interleaved in every way, each callback free to       *)
(* return a result or an error.                                            *)

\* The graph of ExampleDAG_DescendantsFlow.  Its vertices hold the ints 0 to
\* 4 and get their ids from the DAG: 0->1, 0->3, 1->2, 2->4, 3->4.
FlowExample ==
    LET vs == 1 .. 5
        es == {<<1, 2>>, <<1, 4>>, <<2, 3>>, <<3, 5>>, <<4, 5>>}
    IN  [vertices |-> vs,
         vertexIds |-> [i \in vs |-> i],
         inboundEdge |-> [v \in vs |-> {e[1] : e \in {e \in es : e[2] = v}}],
         outboundEdge |-> [v \in vs |-> {e[2] : e \in {e \in es : e[1] = v}}],
         ancestorsCache |-> EmptyMap,
         descendantsCache |-> EmptyMap]

InitFlow ==
    \E d \in Builds \cup {FlowExample} :
        /\ vertices = d.vertices
        /\ vertexIds = d.vertexIds
        /\ inboundEdge = d.inboundEdge
        /\ outboundEdge = d.outboundEdge
        /\ ancestorsCache = d.ancestorsCache
        /\ descendantsCache = d.descendantsCache
        /\ walkers = 0
        /\ flow = NoFlow
        /\ walker = NoWalk
        /\ visit = NoVisit
        /\ callers = NoCallers
        /\ stored = NoData
        /\ verticesLocked = newDMutex
        /\ muDAG = NoLock
        /\ returned = NoReturn
        /\ last = [op |-> "build", err |-> "ok", grew |-> Cardinality(d.vertices)]

\* The flow takes a step to f; the graph is only read.
FlowStep(f) ==
    /\ flow' = f
    /\ UNCHANGED <<vertices, vertexIds, inboundEdge, outboundEdge,
                   ancestorsCache, descendantsCache, walkers, walker, visit,
                   callers, stored, verticesLocked,
                   muDAG, returned, last>>

CallDescendantsFlow ==
    /\ flow.pc = "idle"
    /\ \E root \in Arg \cup vertices : FlowStep(flowStart(D, root))

\* The worker of a ready vertex invokes the callback.
FlowRun ==
    /\ flow.pc = "running"
    /\ \E v \in flow.sub :
            /\ flow.st[v] = "ready"
            /\ FlowStep(flowRun(D, flow, v))

\* A callback returns a result.
FlowDone ==
    /\ flow.pc = "running"
    /\ \E v \in flow.sub :
            /\ flow.st[v] = "running"
            /\ FlowStep(flowDone(D, flow, v))

\* A callback returns an error.
FlowFail ==
    /\ flow.pc = "running"
    /\ \E v \in flow.sub :
            /\ flow.st[v] = "running"
            /\ FlowStep(flowFail(D, flow, v))

\* No worker runs or can run any more: the call returns.
FlowReturn ==
    /\ flow.pc = "running"
    /\ \A v \in flow.sub : flow.st[v] \notin {"ready", "running"}
    /\ FlowStep(flowReturn(D, flow))

NextFlow ==
    \/ CallDescendantsFlow
    \/ FlowRun
    \/ FlowDone
    \/ FlowFail
    \/ FlowReturn

SpecFlow == InitFlow /\ [][NextFlow]_vars

\* The workers are goroutines and every callback returns: a step that stays
\* possible is taken.
SpecFlowFair ==
    /\ SpecFlow
    /\ WF_vars(FlowRun)
    /\ WF_vars(FlowDone \/ FlowFail)
    /\ WF_vars(FlowReturn)

----------------------------------------------------------------------------
(* One walker on the graphs of the tests and of the examples, its          *)
(* goroutine and its consumer interleaved in every way.  The consumer      *)
(* receives, raises the signal and stops, or stops without the signal; a   *)
(* later mutating call waits for the write lock.                           *)

\* The graph of TestDAG_AncestorsWalkerSignal and ExampleDAG_AncestorsWalker:
\* 1->2, 2->3, 2->4, 4->5.
WalkExample ==
    LET vs == 1 .. 5
        es == {<<1, 2>>, <<2, 3>>, <<2, 4>>, <<4, 5>>}
    IN  [vertices |-> vs,
         vertexIds |-> [i \in vs |-> i],
         inboundEdge |-> [v \in vs |-> {e[1] : e \in {e \in es : e[2] = v}}],
         outboundEdge |-> [v \in vs |-> {e[2] : e \in {e \in es : e[1] = v}}],
         ancestorsCache |-> EmptyMap,
         descendantsCache |-> EmptyMap]

InitWalk ==
    \E d \in Builds \cup {FlowExample, WalkExample} :
        /\ vertices = d.vertices
        /\ vertexIds = d.vertexIds
        /\ inboundEdge = d.inboundEdge
        /\ outboundEdge = d.outboundEdge
        /\ ancestorsCache = d.ancestorsCache
        /\ descendantsCache = d.descendantsCache
        /\ walkers = 0
        /\ flow = NoFlow
        /\ walker = NoWalk
        /\ visit = NoVisit
        /\ callers = NoCallers
        /\ stored = NoData
        /\ verticesLocked = newDMutex
        /\ muDAG = NoLock
        /\ returned = NoReturn
        /\ last = [op |-> "build", err |-> "ok", grew |-> Cardinality(d.vertices)]

\* The walker takes a step to w; the graph is only read.
WalkStep(w) ==
    /\ walker' = w
    /\ UNCHANGED <<vertices, vertexIds, inboundEdge, outboundEdge,
                   ancestorsCache, descendantsCache, flow, visit, callers,
                   stored, verticesLocked, muDAG, returned, last>>

\* AncestorsWalker(v) or DescendantsWalker(v) is called.
WalkerCall ==
    /\ walker.pc = "idle"
    /\ \E edge \in {"inboundEdge", "outboundEdge"}, v \in Arg \cup vertices :
        LET r == IF edge = "inboundEdge" THEN AncestorsWalker(D, v)
                                         ELSE DescendantsWalker(D, v)
        IN  /\ walker' = IF r.go = 1 THEN walkGo(walker, edge, v) ELSE walker
            /\ walkers' = walkers + r.go
            /\ last' = [op |-> IF edge = "inboundEdge" THEN "AncestorsWalker"
                                                       ELSE "DescendantsWalker",
                        err |-> r.err, grew |-> 0]
            /\ UNCHANGED <<vertices, vertexIds, inboundEdge, outboundEdge,
                           ancestorsCache, descendantsCache, flow, visit,
                           callers, stored, verticesLocked, muDAG,
                           returned>>

\* The goroutine gets the read lock, which it does not while a writer waits,
\* and starts to walk.
WalkBegin ==
    /\ walker.pc = "go"
    /\ walker.writer # "waiting"
    /\ \E p \in Perms(walkEdge(D, walker)[walker.v]) :
            WalkStep(walkBegin(D, walker, p))
    /\ UNCHANGED walkers

WalkLoop ==
    /\ walker.pc = "loop"
    /\ LET new == IF walker.fifo = <<>> THEN {}
                  ELSE walkEdge(D, walker)[Head(walker.fifo)] \ walker.visited
       IN  \E p \in Perms(new) : WalkStep(walkLoop(D, walker, p))
    /\ UNCHANGED walkers

WalkSelect ==
    /\ walker.pc = "select"
    /\ WalkStep(walkSelect(walker))
    /\ UNCHANGED walkers

\* The send goes through only while the consumer receives.
WalkSend ==
    /\ walker.pc = "send"
    /\ walker.consumer = "receiving"
    /\ WalkStep(walkSend(walker))
    /\ UNCHANGED walkers

WalkEnd ==
    /\ walker.pc = "return"
    /\ WalkStep(walkEnd(walker))
    /\ walkers' = walkers - 1

\* The consumer raises the signal and stops receiving.
ConsumerSignal ==
    /\ walker.consumer = "receiving"
    /\ WalkStep(consumerSignal(walker))
    /\ UNCHANGED walkers

\* The consumer stops receiving without raising the signal.
ConsumerAbandon ==
    /\ walker.consumer = "receiving"
    /\ ~walker.closed
    /\ WalkStep([walker EXCEPT !.consumer = "stopped"])
    /\ UNCHANGED walkers

\* The consumer's range over vertices ends when the channel is closed.
ConsumerDrained ==
    /\ walker.consumer = "receiving"
    /\ walker.closed
    /\ WalkStep([walker EXCEPT !.consumer = "drained"])
    /\ UNCHANGED walkers

\* The consumer raises the signal after it has stopped receiving.
ConsumerSignalAgain ==
    /\ walker.consumer \in {"stopped", "drained"}
    /\ WalkStep(consumerSignalAgain(walker))
    /\ UNCHANGED walkers

\* The channel signal is closed while the consumer waits in its send.
ConsumerPanics ==
    /\ walker.consumer = "blocked"
    /\ walker.closed
    /\ WalkStep([walker EXCEPT !.consumer = "panic"])
    /\ UNCHANGED walkers

\* After the consumer is through with the walker, AddEdge, DeleteEdge or
\* DeleteVertex is called and waits for the write lock.
WriterArrives ==
    /\ walker.consumer \in {"stopped", "drained"}
    /\ walker.writer = "none"
    /\ WalkStep([walker EXCEPT !.writer = "waiting"])
    /\ UNCHANGED walkers

\* The writer gets the lock once no reader holds it.
WriterLocks ==
    /\ walker.writer = "waiting"
    /\ ~walker.rlock
    /\ WalkStep([walker EXCEPT !.writer = "done"])
    /\ UNCHANGED walkers

NextWalk ==
    \/ WalkerCall
    \/ WalkBegin
    \/ WalkLoop
    \/ WalkSelect
    \/ WalkSend
    \/ WalkEnd
    \/ ConsumerSignal
    \/ ConsumerAbandon
    \/ ConsumerDrained
    \/ ConsumerSignalAgain
    \/ ConsumerPanics
    \/ WriterArrives
    \/ WriterLocks

SpecWalk == InitWalk /\ [][NextWalk]_vars

\* The goroutine and the writer are scheduled: a step of theirs that stays
\* possible is taken.  What the consumer does is up to the consumer.
SpecWalkFair ==
    /\ SpecWalk
    /\ WF_vars(WalkBegin)
    /\ WF_vars(WalkLoop)
    /\ WF_vars(WalkSelect)
    /\ WF_vars(WalkSend)
    /\ WF_vars(WalkEnd)
    /\ WF_vars(WriterLocks)

----------------------------------------------------------------------------
(* ReduceTransitively on every graph of four vertices, with the caches in  *)
(* every state that queries leave them in.                                  *)

\* The DAG with the vertices vs, each with an id of its own, and the edges
\* es, as AddVertex and AddEdge calls followed by FlushCaches leave it.
graphOf(vs, es) ==
    [vertices |-> vs,
     vertexIds |-> [i \in vs |-> i],
     inboundEdge |-> [v \in vs |-> {e[1] : e \in {e \in es : e[2] = v}}],
     outboundEdge |-> [v \in vs |-> {e[2] : e \in {e \in es : e[1] = v}}],
     ancestorsCache |-> EmptyMap,
     descendantsCache |-> EmptyMap]

\* Edges from a smaller to a larger vertex close no loop.
ForwardEdges == {e \in Vertex \X Vertex : e[1] < e[2]}

InitReduce ==
    \E es \in SUBSET ForwardEdges :
        LET d == graphOf(Vertex, es)
        IN  /\ vertices = d.vertices
            /\ vertexIds = d.vertexIds
            /\ inboundEdge = d.inboundEdge
            /\ outboundEdge = d.outboundEdge
            /\ ancestorsCache = d.ancestorsCache
            /\ descendantsCache = d.descendantsCache
            /\ walkers = 0
            /\ flow = NoFlow
            /\ walker = NoWalk
            /\ visit = NoVisit
            /\ callers = NoCallers
            /\ stored = NoData
            /\ verticesLocked = newDMutex
            /\ muDAG = NoLock
            /\ returned = NoReturn
            /\ last = [op |-> "build", err |-> "ok", grew |-> Cardinality(d.vertices)]

NextReduce ==
    \/ CallReduceTransitively
    \/ CallGetDescendants
    \/ CallFlushCaches

SpecReduce == InitReduce /\ [][NextReduce]_vars

----------------------------------------------------------------------------
(* What the claims are measured against: reachability over an adjacency   *)
(* map, computed as a fixpoint and without any cache.                      *)

RECURSIVE ReachFrom(_, _)
ReachFrom(edge, S) ==
    LET T == S \cup UNION {edge[x] : x \in S}
    IN  IF T = S THEN S ELSE ReachFrom(edge, T)

\* The vertices reachable from v over one or more edges.
Reachable(edge, v) == ReachFrom(edge, edge[v])

\* The pairs (src, dst) with an edge src -> dst.
Edges(d) == {e \in Vertex \X Vertex : e[2] \in d.outboundEdge[e[1]]}

\* Some vertex has a descendant that is not its child.
HasLongPath == \E v \in vertices : Reachable(outboundEdge, v) # outboundEdge[v]

----------------------------------------------------------------------------
(* DFSWalk, BFSWalk and OrderedWalk on the graphs of their tests and on     *)
(* every acyclic graph of four vertices.                                    *)

\* getTestWalkDAG .. getTestWalkDAG5
TestWalkDAG == graphOf(1 .. 5, {<<1, 2>>, <<2, 3>>, <<2, 4>>, <<4, 5>>})
TestWalkDAG2 == graphOf(1 .. 5, {<<1, 3>>, <<2, 3>>, <<3, 5>>, <<4, 5>>})
TestWalkDAG3 == graphOf(1 .. 5, {<<1, 3>>, <<2, 3>>, <<4, 5>>})
TestWalkDAG4 == graphOf(1 .. 5, {<<1, 2>>, <<2, 3>>, <<3, 5>>, <<2, 4>>})
TestWalkDAG5 == graphOf(1 .. 5, {<<1, 3>>, <<2, 4>>, <<4, 3>>, <<3, 5>>})

TestWalkDAGs == {TestWalkDAG, TestWalkDAG2, TestWalkDAG3, TestWalkDAG4, TestWalkDAG5}

\* The edge sets AddEdge accepts: no vertex reaches itself.
AcyclicEdges ==
    {es \in SUBSET {e \in Vertex \X Vertex : e[1] # e[2]} :
        LET edge == [v \in Vertex |-> {e[2] : e \in {e \in es : e[1] = v}}]
        IN  \A v \in Vertex : v \notin Reachable(edge, v)}

InitVisit ==
    \E d \in TestWalkDAGs \cup {graphOf(Vertex, es) : es \in AcyclicEdges} :
        /\ vertices = d.vertices
        /\ vertexIds = d.vertexIds
        /\ inboundEdge = d.inboundEdge
        /\ outboundEdge = d.outboundEdge
        /\ ancestorsCache = d.ancestorsCache
        /\ descendantsCache = d.descendantsCache
        /\ walkers = 0
        /\ flow = NoFlow
        /\ walker = NoWalk
        /\ visit = NoVisit
        /\ callers = NoCallers
        /\ stored = NoData
        /\ verticesLocked = newDMutex
        /\ muDAG = NoLock
        /\ returned = NoReturn
        /\ last = [op |-> "build", err |-> "ok", grew |-> Cardinality(d.vertices)]

\* The walk takes a step to vi; the graph is only read.
VisitStep(vi) ==
    /\ visit' = vi
    /\ UNCHANGED <<vertices, vertexIds, inboundEdge, outboundEdge,
                   ancestorsCache, descendantsCache, walkers, flow, walker,
                   callers, stored, verticesLocked, muDAG,
                   returned>>

CallDFSWalk ==
    /\ visit.pc \in {"idle", "done"}
    /\ VisitStep(visitBegin(D, "DFSWalk"))
    /\ UNCHANGED last

CallBFSWalk ==
    /\ visit.pc \in {"idle", "done"}
    /\ VisitStep(visitBegin(D, "BFSWalk"))
    /\ UNCHANGED last

CallOrderedWalk ==
    /\ visit.pc \in {"idle", "done"}
    /\ VisitStep(visitBegin(D, "OrderedWalk"))
    /\ UNCHANGED last

\* One turn of the loop of the walk.
VisitLoop ==
    /\ visit.pc = "walk"
    /\ visit.todo # <<>>
    /\ VisitStep(visitLoop(D, visit))
    /\ UNCHANGED last

\* The list is empty: the walk returns.
VisitReturn ==
    /\ visit.pc = "walk"
    /\ visit.todo = <<>>
    /\ VisitStep([visit EXCEPT !.pc = "done"])
    /\ last' = [op |-> visit.op, err |-> "ok", grew |-> 0]

NextVisit ==
    \/ CallDFSWalk
    \/ CallBFSWalk
    \/ CallOrderedWalk
    \/ VisitLoop
    \/ VisitReturn

SpecVisit == InitVisit /\ [][NextVisit]_vars

----------------------------------------------------------------------------
(* MarshalJSON and UnmarshalJSON on the graphs of the walks and on stored   *)
(* data that live mutation would reject.                                    *)

\* The bytes of a list of vertices and a list of edges.
bytesOf(vs, es) == jsonMarshal([vs |-> vs, es |-> es])

\* Bytes that no MarshalJSON has written: a vertex id twice, a value twice,
\* an edge to an id no vertex has, an edge twice, an edge that closes a
\* loop, an edge from a vertex to itself, a graph whose ids differ from the
\* values, and bytes that are no JSON of a storable DAG.
StoredInputs ==
    {bytesOf(<<<<1, 1>>, <<1, 2>>>>, <<>>),
     bytesOf(<<<<1, 1>>, <<2, 1>>>>, <<>>),
     bytesOf(<<<<1, 1>>, <<2, 2>>>>, <<<<1, 3>>>>),
     bytesOf(<<<<1, 1>>, <<2, 2>>>>, <<<<1, 2>>, <<1, 2>>>>),
     bytesOf(<<<<1, 1>>, <<2, 2>>, <<3, 3>>>>, <<<<1, 2>>, <<2, 3>>, <<3, 1>>>>),
     bytesOf(<<<<1, 1>>>>, <<<<1, 1>>>>),
     bytesOf(<<<<2, 1>>, <<1, 2>>, <<3, 3>>>>, <<<<2, 1>>, <<1, 3>>>>),
     <<Tok("vs", 0), Tok("i", 1)>>}

InitMarshal == InitVisit

CallMarshalJSON ==
    LET r == MarshalJSON(D)
    IN  /\ stored' = r.ret
        /\ last' = [op |-> "MarshalJSON", err |-> r.err, grew |-> 0]
        /\ UNCHANGED <<vertices, vertexIds, inboundEdge, outboundEdge,
                       ancestorsCache, descendantsCache, walkers, flow,
                       walker, visit, callers, verticesLocked, muDAG,
                       returned>>

CallUnmarshalJSON ==
    \E data \in {stored} \cup StoredInputs :
        LET r == UnmarshalJSON(D, data)
        IN  /\ stored' = data
            /\ vertices' = r.d.vertices
            /\ vertexIds' = r.d.vertexIds
            /\ inboundEdge' = r.d.inboundEdge
            /\ outboundEdge' = r.d.outboundEdge
            /\ ancestorsCache' = r.d.ancestorsCache
            /\ descendantsCache' = r.d.descendantsCache
            /\ last' = [op |-> "UnmarshalJSON", err |-> r.err,
                        grew |-> Cardinality(r.d.vertices) - Cardinality(vertices)]
            /\ UNCHANGED <<walkers, flow, walker, visit, callers,
                           verticesLocked, muDAG, returned>>

NextMarshal ==
    \/ CallMarshalJSON
    \/ CallUnmarshalJSON

SpecMarshal == InitMarshal /\ [][NextMarshal]_vars

----------------------------------------------------------------------------
(* GetDescendantsGraph and GetAncestorsGraph on the graph of their tests    *)
(* and on every acyclic graph of four vertices.                             *)

\* The graph of TestDAG_GetDescendantsGraph and TestDAG_GetAncestorsGraph.
TestRelativesDAG ==
    graphOf(1 .. 9, {<<1, 2>>, <<2, 3>>, <<2, 4>>, <<3, 5>>, <<4, 5>>,
                     <<5, 6>>, <<6, 7>>, <<6, 8>>})

InitRelatives ==
    \E d \in {TestRelativesDAG} \cup {graphOf(Vertex, es) : es \in AcyclicEdges} :
        /\ vertices = d.vertices
        /\ vertexIds = d.vertexIds
        /\ inboundEdge = d.inboundEdge
        /\ outboundEdge = d.outboundEdge
        /\ ancestorsCache = d.ancestorsCache
        /\ descendantsCache = d.descendantsCache
        /\ walkers = 0
        /\ flow = NoFlow
        /\ walker = NoWalk
        /\ visit = NoVisit
        /\ callers = NoCallers
        /\ stored = NoData
        /\ verticesLocked = newDMutex
        /\ muDAG = NoLock
        /\ returned = NoReturn
        /\ last = [op |-> "build", err |-> "ok", grew |-> Cardinality(d.vertices)]

CallGetDescendantsGraph ==
    \E id \in IdArg \cup DOMAIN vertexIds \cup {10} :
        Step("GetDescendantsGraph", GetDescendantsGraph(D, id))

CallGetAncestorsGraph ==
    \E id \in IdArg \cup DOMAIN vertexIds \cup {10} :
        Step("GetAncestorsGraph", GetAncestorsGraph(D, id))

NextRelatives ==
    \/ CallGetDescendantsGraph
    \/ CallGetAncestorsGraph

SpecRelatives == InitRelatives /\ [][NextRelatives]_vars

----------------------------------------------------------------------------
(* Two goroutines that call AddVertex or AddEdge at once, on the empty      *)
(* graph, on three vertices without edges, and on 1->2 and 1->2->3.         *)

ConcStarts ==
    {NewDAG,
     AddVertex(AddVertex(AddVertex(NewDAG, 1).d, 2).d, 3).d,
     build(NewDAG, <<<<1, 2>>>>),
     build(NewDAG, <<<<1, 2>>, <<2, 3>>>>)}

InitConc ==
    \E d \in ConcStarts :
        /\ vertices = d.vertices
        /\ vertexIds = d.vertexIds
        /\ inboundEdge = d.inboundEdge
        /\ outboundEdge = d.outboundEdge
        /\ ancestorsCache = d.ancestorsCache
        /\ descendantsCache = d.descendantsCache
        /\ walkers = 0
        /\ flow = NoFlow
        /\ walker = NoWalk
        /\ visit = NoVisit
        /\ callers = callersOn(d)
        /\ stored = NoData
        /\ verticesLocked = newDMutex
        /\ muDAG = NoLock
        /\ returned = NoReturn
        /\ last = [op |-> "build", err |-> "ok", grew |-> Cardinality(d.vertices)]

\* The goroutine p takes a step to c, muDAG is mu and the struct is d.
CallerStep(p, c, mu, d) ==
    /\ callers' = [callers EXCEPT !.ps[p] = c, !.mu = mu]
    /\ vertices' = d.vertices
    /\ vertexIds' = d.vertexIds
    /\ inboundEdge' = d.inboundEdge
    /\ outboundEdge' = d.outboundEdge
    /\ ancestorsCache' = d.ancestorsCache
    /\ descendantsCache' = d.descendantsCache
    /\ UNCHANGED <<walkers, flow, walker, visit, stored, verticesLocked,
                   muDAG, returned>>

\* "go d.AddVertex(v)" or "go d.AddEdge(src, dst)"
CallerGoes ==
    \E p \in 1 .. NumCallers :
        /\ callers.ps[p].pc = "idle"
        /\ \/ \E v \in Vertex :
                CallerStep(p, [NoCall EXCEPT !.pc = "lock", !.op = "AddVertex",
                                             !.src = v], callers.mu, D)
           \/ \E src, dst \in Vertex :
                CallerStep(p, [NoCall EXCEPT !.pc = "lock", !.op = "AddEdge",
                                             !.src = src, !.dst = dst],
                           callers.mu, D)
        /\ UNCHANGED last

\* d.muDAG.Lock()
CallerLocks ==
    \E p \in 1 .. NumCallers :
        /\ callers.ps[p].pc = "lock"
        /\ muUnlocked(callers)
        /\ CallerStep(p, [callers.ps[p] EXCEPT !.pc = "check"], p, D)
        /\ UNCHANGED last

\* The sanity checks and the check for circles.
CallerChecks ==
    \E p \in 1 .. NumCallers :
        /\ callers.ps[p].pc = "check"
        /\ LET r == callerCheck(D, callers.ps[p])
           IN  CallerStep(p, [callers.ps[p] EXCEPT
                                !.pc = IF r.err = "ok" THEN "insert" ELSE "unlock",
                                !.err = r.err,
                                !.copies = r.ret],
                          callers.mu, r.d)
        /\ UNCHANGED last

\* The vertex or the edge is put into the maps.
CallerInserts ==
    \E p \in 1 .. NumCallers :
        /\ callers.ps[p].pc = "insert"
        /\ CallerStep(p, [callers.ps[p] EXCEPT !.pc = "unlock"], callers.mu,
                      callerInsert(D, callers.ps[p]))
        /\ UNCHANGED last

\* The call returns: defer d.muDAG.Unlock()
CallerUnlocks ==
    \E p \in 1 .. NumCallers :
        /\ callers.ps[p].pc = "unlock"
        /\ CallerStep(p, [callers.ps[p] EXCEPT !.pc = "done"], 0, D)
        /\ last' = [op |-> callers.ps[p].op, err |-> callers.ps[p].err,
                    grew |-> 0]

NextConc ==
    \/ CallerGoes
    \/ CallerLocks
    \/ CallerChecks
    \/ CallerInserts
    \/ CallerUnlocks

SpecConc == InitConc /\ [][NextConc]_vars

----------------------------------------------------------------------------
(* Goroutines that call lock(i) and then unlock(i) on one dMutex, over and  *)
(* over, each on a key of its choice.                                       *)

\* The goroutines and the keys they lock.
Lockers == 1 .. NumLockers
Keys == 1 .. NumKeys

InitPool ==
    /\ vertices = {}
    /\ vertexIds = EmptyMap
    /\ inboundEdge = [v \in Vertex |-> {}]
    /\ outboundEdge = [v \in Vertex |-> {}]
    /\ ancestorsCache = EmptyMap
    /\ descendantsCache = EmptyMap
    /\ walkers = 0
    /\ flow = NoFlow
    /\ walker = NoWalk
    /\ visit = NoVisit
    /\ callers = [c \in Lockers |-> NoLocker]
    /\ stored = NoData
    /\ verticesLocked = newDMutex
    /\ muDAG = NoLock
    /\ returned = NoReturn
    /\ last = [op |-> "newDMutex", err |-> "ok", grew |-> 0]

\* The goroutine c goes to pc in its call op on the key i and leaves the
\* dMutex as p.
PoolStep(c, op, pc, i, p) ==
    /\ callers' = [callers EXCEPT ![c] = [pc |-> pc, i |-> i]]
    /\ verticesLocked' = p
    /\ last' = [op |-> op, err |-> "ok", grew |-> 0]
    /\ UNCHANGED <<vertices, vertexIds, inboundEdge, outboundEdge,
                   ancestorsCache, descendantsCache, walkers, flow, walker,
                   visit, stored, muDAG, returned>>

\* The goroutine c calls lock(i).
LockCall(c) ==
    \E i \in Keys :
        /\ callers[c].pc = "idle"
        /\ PoolStep(c, "lock", "lock", i, verticesLocked)

\* lock: d.globalMutex.Lock()
LockGlobal(c) ==
    /\ callers[c].pc = "lock"
    /\ globalMutexUnlocked(verticesLocked)
    /\ PoolStep(c, "lock", "count", callers[c].i,
                lockGlobal(verticesLocked, c))

\* lock: the cMutex is there and counted, d.globalMutex.Unlock()
LockCount(c) ==
    /\ callers[c].pc = "count"
    /\ PoolStep(c, "lock", "wait", callers[c].i,
                lockCount(verticesLocked, c, callers[c].i))

\* lock: (*mutex).Lock() returns, and so does lock(i).
LockMutex(c) ==
    /\ callers[c].pc = "wait"
    /\ mutexUnlocked(verticesLocked, callers[c].i)
    /\ PoolStep(c, "lock", "locked", callers[c].i,
                lockMutex(verticesLocked, c, callers[c].i))

\* The goroutine c calls unlock(i).
UnlockCall(c) ==
    /\ callers[c].pc = "locked"
    /\ PoolStep(c, "unlock", "unlock", callers[c].i, verticesLocked)

\* unlock: d.globalMutex.Lock()
UnlockGlobal(c) ==
    /\ callers[c].pc = "unlock"
    /\ globalMutexUnlocked(verticesLocked)
    /\ PoolStep(c, "unlock", "release", callers[c].i,
                lockGlobal(verticesLocked, c))

\* unlock: d.mutexes[i].mutex.Unlock()
UnlockMutex(c) ==
    /\ callers[c].pc = "release"
    /\ PoolStep(c, "unlock", "uncount", callers[c].i,
                unlockMutex(verticesLocked, c, callers[c].i))

\* unlock: the count goes down, d.globalMutex.Unlock(), unlock(i) returns.
UnlockCount(c) ==
    /\ callers[c].pc = "uncount"
    /\ PoolStep(c, "unlock", "idle", Nil,
                unlockCount(verticesLocked, c, callers[c].i))

\* The steps of the goroutine c.
Locker(c) ==
    \/ LockCall(c)
    \/ LockGlobal(c)
    \/ LockCount(c)
    \/ LockMutex(c)
    \/ UnlockCall(c)
    \/ UnlockGlobal(c)
    \/ UnlockMutex(c)
    \/ UnlockCount(c)

NextPool == \E c \in Lockers : Locker(c)

SpecPool == InitPool /\ [][NextPool]_vars

\* sync.Mutex hands a lock that is unlocked again and again to every
\* goroutine that waits for it.
SpecPoolFair == SpecPool /\ \A c \in Lockers : SF_vars(Locker(c))

----------------------------------------------------------------------------
(* Goroutines that call GetAncestors or GetDescendants, each once, next to  *)
(* a goroutine that calls AddEdge, DeleteEdge or DeleteVertex.  The graphs  *)
(* are 1->2 and 1->2->3 with empty caches, and 1->2->3 with the caches as   *)
(* the AddEdge calls left them.                                             *)

Queriers == 1 .. NumQueries

ClosureStarts ==
    {flushCaches(build(NewDAG, <<<<1, 2>>>>)),
     flushCaches(build(NewDAG, <<<<1, 2>>, <<2, 3>>>>)),
     build(NewDAG, <<<<1, 2>>, <<2, 3>>>>)}

InitClosure ==
    \E d \in ClosureStarts :
        /\ vertices = d.vertices
        /\ vertexIds = d.vertexIds
        /\ inboundEdge = d.inboundEdge
        /\ outboundEdge = d.outboundEdge
        /\ ancestorsCache = d.ancestorsCache
        /\ descendantsCache = d.descendantsCache
        /\ walkers = 0
        /\ flow = NoFlow
        /\ walker = NoWalk
        /\ visit = NoVisit
        /\ callers = [rs |-> [c \in Queriers |-> NoQuery], w |-> NoMutation,
                      n |-> 0]
        /\ stored = NoData
        /\ verticesLocked = newDMutex
        /\ muDAG = NoLock
        /\ returned = NoReturn
        /\ last = [op |-> "build", err |-> "ok", grew |-> Cardinality(d.vertices)]

\* A step that leaves the struct as d, the dMutex as p, muDAG as mu and the
\* goroutines as cs.
ClosureStep(d, p, mu, cs) ==
    /\ vertices' = d.vertices
    /\ vertexIds' = d.vertexIds
    /\ inboundEdge' = d.inboundEdge
    /\ outboundEdge' = d.outboundEdge
    /\ ancestorsCache' = d.ancestorsCache
    /\ descendantsCache' = d.descendantsCache
    /\ verticesLocked' = p
    /\ muDAG' = mu
    /\ callers' = cs
    /\ UNCHANGED <<walkers, flow, walker, visit, stored, returned>>

\* The goroutine c calls GetAncestors(v) or GetDescendants(v).
QueryCall(c) ==
    \E asc \in BOOLEAN, v \in vertices :
        /\ callers.rs[c].pc = "idle"
        /\ ClosureStep(D, verticesLocked, muDAG,
                       [callers EXCEPT !.rs[c].pc = "rlock",
                                       !.rs[c].asc = asc, !.rs[c].v = v])
        /\ UNCHANGED last

\* d.muDAG.RLock() returns, and saneVertex.
QueryRLock(c) ==
    LET q == callers.rs[c]
        err == saneVertex(D, q.v)
    IN  /\ q.pc = "rlock"
        /\ muRLockable(muDAG)
        /\ ClosureStep(D, verticesLocked, muRLock(muDAG),
                [callers EXCEPT !.rs[c] =
                    [q EXCEPT !.pc = IF err = "ok" THEN "run" ELSE "return",
                              !.err = err,
                              !.seen = <<inboundEdge, outboundEdge>>,
                              !.st = IF err = "ok"
                                     THEN <<closureCall(q.asc, q.v)>>
                                     ELSE <<>>]])
        /\ UNCHANGED last

\* One statement of getAncestors or getDescendants; the outermost call
\* returns into copyMap.
QueryStep(c) ==
    LET q == callers.rs[c]
        f == q.st[Len(q.st)]
    IN  /\ q.pc = "run"
        /\ ~closureWaits(verticesLocked, q.st)
        /\ \E relative \in IF f.pc = "loop" /\ f.todo # {} THEN f.todo
                           ELSE {Nil} :
              LET r == closureStep(D, verticesLocked, c, q.st, relative)
              IN  ClosureStep(r.d, r.p, muDAG,
                      [callers EXCEPT !.rs[c] =
                          [q EXCEPT !.st = r.st,
                                    !.pc = IF r.st = <<>> THEN "return"
                                           ELSE "run",
                                    !.ret = r.ret]])
        /\ UNCHANGED last

\* The deferred d.muDAG.RUnlock() and the return to the caller.
QueryReturn(c) ==
    LET q == callers.rs[c]
    IN  /\ q.pc = "return"
        /\ ClosureStep(D, verticesLocked, muRUnlock(muDAG),
                       [callers EXCEPT !.rs[c].pc = "done"])
        /\ last' = [op |-> IF q.asc THEN "GetAncestors" ELSE "GetDescendants",
                    err |-> q.err, grew |-> 0]

\* A mutating method is called and calls d.muDAG.Lock().
MutationCall ==
    /\ callers.w.pc = "idle"
    /\ callers.n < MaxMutations
    /\ ClosureStep(D, verticesLocked, muLockCall(muDAG),
                   [callers EXCEPT !.w.pc = "lock"])
    /\ UNCHANGED last

\* d.muDAG.Lock() returns, the method runs to its end on the arguments of
\* the call and unlocks.
MutationRun ==
    \E op \in {"AddEdge", "DeleteEdge", "DeleteVertex"},
       src, dst \in 1 .. NumIds :
        LET w == [callers.w EXCEPT !.op = op, !.src = src, !.dst = dst]
            r == mutation(D, w)
        IN  /\ w.pc = "lock"
            /\ muLockable(muDAG)
            /\ op = "DeleteVertex" => dst = src
            /\ ClosureStep(r.d, verticesLocked, muUnlock(muDAG),
                           [callers EXCEPT !.w = NoMutation, !.n = @ + 1])
            /\ last' = [op |-> op, err |-> r.err, grew |-> 0]

NextClosure ==
    \/ \E c \in Queriers : QueryCall(c)
    \/ \E c \in Queriers : QueryRLock(c)
    \/ \E c \in Queriers : QueryStep(c)
    \/ \E c \in Queriers : QueryReturn(c)
    \/ MutationCall
    \/ MutationRun

SpecClosure == InitClosure /\ [][NextClosure]_vars

----------------------------------------------------------------------------
(* One call of GetOrderedAncestors or GetOrderedDescendants next to a       *)
(* goroutine that calls AddEdge, DeleteEdge or DeleteVertex.                *)

InitOrdered ==
    \E d \in ClosureStarts :
        /\ vertices = d.vertices
        /\ vertexIds = d.vertexIds
        /\ inboundEdge = d.inboundEdge
        /\ outboundEdge = d.outboundEdge
        /\ ancestorsCache = d.ancestorsCache
        /\ descendantsCache = d.descendantsCache
        /\ walkers = 0
        /\ flow = NoFlow
        /\ walker = NoWalk
        /\ visit = NoVisit
        /\ callers = NoOrdered
        /\ stored = NoData
        /\ verticesLocked = newDMutex
        /\ muDAG = NoLock
        /\ returned = NoReturn
        /\ last = [op |-> "build", err |-> "ok", grew |-> Cardinality(d.vertices)]

\* A step of the caller or of the goroutine of the walker that leaves the
\* caller as o, the walker as w and muDAG as mu; the graph is only read.
OrderedStep(o, w, mu) ==
    /\ callers' = o
    /\ walker' = w
    /\ muDAG' = mu
    /\ UNCHANGED <<vertices, vertexIds, inboundEdge, outboundEdge,
                   ancestorsCache, descendantsCache, flow, visit, stored,
                   verticesLocked, returned>>

\* GetOrderedAncestors(v) or GetOrderedDescendants(v) is called.
OrderedCall ==
    \E edge \in {"inboundEdge", "outboundEdge"}, v \in vertices :
        /\ callers.pc = "idle"
        /\ OrderedStep([callers EXCEPT !.pc = "rlock", !.edge = edge, !.v = v],
                       walker, muDAG)
        /\ UNCHANGED <<walkers, last>>

\* The d.muDAG.RLock() of GetOrderedAncestors / GetOrderedDescendants.
OrderedRLock ==
    /\ callers.pc = "rlock"
    /\ muRLockable(muDAG)
    /\ OrderedStep([callers EXCEPT !.pc = "walker"], walker, muRLock(muDAG))
    /\ UNCHANGED <<walkers, last>>

\* The d.muDAG.RLock() of the walker call returns; the call checks v, starts
\* the goroutine, unlocks and returns.
OrderedWalker ==
    LET r == orderedWalker(D, callers)
    IN  /\ callers.pc = "walker"
        /\ muRLockable(muDAG)
        /\ OrderedStep([callers EXCEPT !.pc = IF r.go = 1 THEN "range"
                                                          ELSE "return",
                                       !.err = r.err],
                       IF r.go = 1 THEN walkGo(walker, callers.edge, callers.v)
                                   ELSE walker,
                       muRUnlock(muRLock(muDAG)))
        /\ walkers' = walkers + r.go
        /\ UNCHANGED last

\* The d.muDAG.RLock() of the goroutine returns and the walk begins.
OrderedGo ==
    /\ walker.pc = "go"
    /\ muRLockable(muDAG)
    /\ \E p \in Perms(walkEdge(D, walker)[walker.v]) :
            OrderedStep(callers, walkBegin(D, walker, p), muRLock(muDAG))
    /\ UNCHANGED <<walkers, last>>

OrderedLoop ==
    /\ walker.pc = "loop"
    /\ \E p \in IF walker.fifo = <<>> THEN {<<>>}
                ELSE Perms(walkEdge(D, walker)[Head(walker.fifo)]
                                \ walker.visited) :
            OrderedStep(callers, walkLoop(D, walker, p), muDAG)
    /\ UNCHANGED <<walkers, last>>

OrderedSelect ==
    /\ walker.pc = "select"
    /\ OrderedStep(callers, walkSelect(walker), muDAG)
    /\ UNCHANGED <<walkers, last>>

\* The send on vertices meets the receive of the range in the caller.
OrderedSend ==
    /\ walker.pc = "send"
    /\ callers.pc = "range"
    /\ OrderedStep(callers, walkSend(walker), muDAG)
    /\ UNCHANGED <<walkers, last>>

\* The goroutine unlocks, closes the channels and ends.
OrderedEnd ==
    /\ walker.pc = "return"
    /\ OrderedStep(callers, walkEnd(walker), muRUnlock(muDAG))
    /\ walkers' = walkers - 1
    /\ UNCHANGED last

\* The range ends on the closed channel, or the walker call has returned an
\* error: the deferred d.muDAG.RUnlock() and the return.
OrderedReturn ==
    /\ \/ callers.pc = "range" /\ walker.closed
       \/ callers.pc = "return"
    /\ OrderedStep(orderedReturn(callers, walker), walker, muRUnlock(muDAG))
    /\ last' = [op |-> IF callers.edge = "inboundEdge"
                       THEN "GetOrderedAncestors" ELSE "GetOrderedDescendants",
                err |-> callers.err, grew |-> 0]
    /\ UNCHANGED walkers

\* A mutating method is called and calls d.muDAG.Lock().
OrderedMutationCall ==
    /\ muDAG.writer = "none"
    /\ callers.n < MaxMutations
    /\ OrderedStep(callers, walker, muLockCall(muDAG))
    /\ UNCHANGED <<walkers, last>>

\* d.muDAG.Lock() returns, the method runs to its end on the arguments of
\* the call and unlocks.
OrderedMutationRun ==
    \E op \in {"AddEdge", "DeleteEdge", "DeleteVertex"},
       src, dst \in 1 .. NumIds :
        LET r == mutation(D, [NoMutation EXCEPT !.op = op, !.src = src,
                                                !.dst = dst])
        IN  /\ muDAG.writer = "waiting"
            /\ muLockable(muDAG)
            /\ op = "DeleteVertex" => dst = src
            /\ vertices' = r.d.vertices
            /\ vertexIds' = r.d.vertexIds
            /\ inboundEdge' = r.d.inboundEdge
            /\ outboundEdge' = r.d.outboundEdge
            /\ ancestorsCache' = r.d.ancestorsCache
            /\ descendantsCache' = r.d.descendantsCache
            /\ muDAG' = muUnlock(muDAG)
            /\ callers' = [callers EXCEPT !.n = @ + 1]
            /\ last' = [op |-> op, err |-> r.err, grew |-> 0]
            /\ UNCHANGED <<walkers, flow, walker, visit, stored,
                           verticesLocked, returned>>

NextOrdered ==
    \/ OrderedCall
    \/ OrderedRLock
    \/ OrderedWalker
    \/ OrderedGo
    \/ OrderedLoop
    \/ OrderedSelect
    \/ OrderedSend
    \/ OrderedEnd
    \/ OrderedReturn
    \/ OrderedMutationCall
    \/ OrderedMutationRun

SpecOrdered == InitOrdered /\ [][NextOrdered]_vars

----------------------------------------------------------------------------
(* A caller that gets a map from GetVertices, GetParents, GetChildren,      *)
(* GetAncestors or GetDescendants and writes to it, on the graphs 1->2 and  *)
(* 1->2->3.                                                                 *)

\* The methods that return a map.
MapQueries ==
    {"GetVertices", "GetParents", "GetChildren", "GetAncestors",
     "GetDescendants"}

InitCopy ==
    \E d \in ClosureStarts :
        /\ vertices = d.vertices
        /\ vertexIds = d.vertexIds
        /\ inboundEdge = d.inboundEdge
        /\ outboundEdge = d.outboundEdge
        /\ ancestorsCache = d.ancestorsCache
        /\ descendantsCache = d.descendantsCache
        /\ walkers = 0
        /\ flow = NoFlow
        /\ walker = NoWalk
        /\ visit = NoVisit
        /\ callers = NoCallers
        /\ stored = NoData
        /\ verticesLocked = newDMutex
        /\ muDAG = NoLock
        /\ returned = NoReturn
        /\ last = [op |-> "build", err |-> "ok", grew |-> Cardinality(d.vertices)]

\* A step that leaves the struct as d and the caller's map value as m.
CopyStep(d, m, op, err) ==
    /\ vertices' = d.vertices
    /\ vertexIds' = d.vertexIds
    /\ inboundEdge' = d.inboundEdge
    /\ outboundEdge' = d.outboundEdge
    /\ ancestorsCache' = d.ancestorsCache
    /\ descendantsCache' = d.descendantsCache
    /\ returned' = m
    /\ last' = [op |-> op, err |-> err, grew |-> 0]
    /\ UNCHANGED <<walkers, flow, walker, visit, callers, stored,
                   verticesLocked, muDAG>>

\* The caller calls one of the methods and keeps the map it returns.
MapQuery ==
    \E op \in MapQueries, v \in Arg :
        LET r == returnedMap(D, op, v)
        IN  /\ op = "GetVertices" => v = Nil
            /\ CopyStep(r.d, IF r.err = "ok" THEN [r.ret EXCEPT !.op = op]
                                             ELSE returned,
                        op, r.err)

\* The caller adds a key to the map it holds, or deletes one.
MapWrite ==
    \E key \in Vertex, put \in BOOLEAN :
        LET w == writeMap(D, returned, key, put)
        IN  /\ returned.op # ""
            /\ CopyStep(w.d, w.m, "write", "ok")

NextCopy ==
    \/ MapQuery
    \/ MapWrite

SpecCopy == InitCopy /\ [][NextCopy]_vars

----------------------------------------------------------------------------
(* The claims *)

\* C1: after any sequence of AddVertex, AddEdge, DeleteEdge, DeleteVertex and
\* ReduceTransitively calls, accepted or rejected, no vertex is reachable
\* from itself over outbound edges.
C1_Acyclic == \A v \in Vertex : v \notin Reachable(outboundEdge, v)

\* An AddEdge call was rejected as a loop in a graph with a path of two edges.
C1_Witness ==
    /\ last.op = "AddEdge"
    /\ last.err = "EdgeLoopError"
    /\ HasLongPath

\* C2: for known vertices src # dst without an edge src -> dst, AddEdge(src,
\* dst) returns the loop error exactly when src is reachable from dst in the
\* current graph, whatever the caches hold; otherwise it returns no error and
\* IsEdge(src, dst) is true afterwards.
C2_LoopIffReachable ==
    \A src, dst \in vertices :
        (src # dst /\ ~isEdge(D, src, dst)) =>
            LET r == AddEdge(D, src, dst)
            IN  /\ r.err = "EdgeLoopError" <=> src \in Reachable(outboundEdge, dst)
                /\ r.err # "EdgeLoopError" =>
                        /\ r.err = "ok"
                        /\ IsEdge(r.d, src, dst) = Ret(r.d, "ok", TRUE)

\* An AddEdge call between two known vertices was accepted and left a graph
\* with a path of two edges, where a further edge can close a cycle.
C2_Witness ==
    /\ last.op = "AddEdge"
    /\ last.err = "ok"
    /\ last.grew = 0
    /\ HasLongPath
    /\ \E src, dst \in vertices : AddEdge(D, src, dst).err = "EdgeLoopError"

\* C3 as claimed: an AddEdge call that returns an error leaves the vertex
\* set, the id map and the edge relation as they were.
C3_RejectedAddEdgeChangesNothing ==
    [][(last'.op = "AddEdge" /\ last'.err # "ok") =>
            UNCHANGED <<vertices, vertexIds, inboundEdge, outboundEdge>>]_vars

\* C4: in every reachable state and for every known vertex v, GetDescendants(v)
\* is the set of vertices reachable from v over outbound edges and
\* GetAncestors(v) the set reachable over inbound edges, whatever happened
\* before and whatever the caches hold.
C4_ClosureCorrect ==
    \A v \in vertices :
        /\ GetDescendants(D, v).err = "ok"
        /\ GetDescendants(D, v).ret = Reachable(outboundEdge, v)
        /\ GetAncestors(D, v).err = "ok"
        /\ GetAncestors(D, v).ret = Reachable(inboundEdge, v)

\* A closure query has run and left the descendant cache partially warm: a
\* vertex with an indirect descendant has no entry, another vertex has one.
C4_Witness ==
    /\ last.op \in {"GetDescendants", "GetAncestors"}
    /\ last.err = "ok"
    /\ \E v \in vertices :
            /\ Reachable(outboundEdge, v) # outboundEdge[v]
            /\ v \notin DOMAIN descendantsCache
            /\ DOMAIN descendantsCache # {}
            /\ DOMAIN ancestorsCache # {}

\* Every entry of the two caches of d is the closure under the edges of d.
CachesSound(d) ==
    /\ \A v \in DOMAIN d.descendantsCache :
            d.descendantsCache[v] = Reachable(d.outboundEdge, v)
    /\ \A v \in DOMAIN d.ancestorsCache :
            d.ancestorsCache[v] = Reachable(d.inboundEdge, v)

\* No vertex whose closure differs between d and e has a cache entry in e.
ChangedClosuresDropped(d, e) ==
    \A v \in Vertex :
        /\ Reachable(d.outboundEdge, v) # Reachable(e.outboundEdge, v)
                => v \notin DOMAIN e.descendantsCache
        /\ Reachable(d.inboundEdge, v) # Reachable(e.inboundEdge, v)
                => v \notin DOMAIN e.ancestorsCache

\* C5: between calls every entry of the ancestor and the descendant cache is
\* the closure of its vertex under the current edges, and after a successful
\* AddEdge, DeleteEdge or DeleteVertex no vertex whose closure changed has a
\* cache entry.
C5_CacheInvariant ==
    /\ CachesSound(D)
    /\ \A src, dst \in Arg :
            /\ AddEdge(D, src, dst).err = "ok"
                    => ChangedClosuresDropped(D, AddEdge(D, src, dst).d)
            /\ DeleteEdge(D, src, dst).err = "ok"
                    => ChangedClosuresDropped(D, DeleteEdge(D, src, dst).d)
    /\ \A v \in Arg :
            DeleteVertex(D, v).err = "ok"
                => ChangedClosuresDropped(D, DeleteVertex(D, v).d)

\* An edge was deleted, another edge is left, and a cache entry of a vertex
\* whose closure is as before survived the call.
C5_Witness ==
    /\ last.op = "DeleteEdge"
    /\ last.err = "ok"
    /\ Edges(D) # {}
    /\ DOMAIN descendantsCache \cup DOMAIN ancestorsCache # {}

\* C6: AddEdge returns the validation error for a nil endpoint, else the
\* source-equals-destination error for src = dst, else the duplicate-edge
\* error for an existing edge, and the loop error only for an edge that would
\* close a cycle; AddEdge(v, v) and re-adding an edge never give a loop error.
C6_AddEdgeErrors ==
    \A src, dst \in Arg :
        LET err == AddEdge(D, src, dst).err
        IN  /\ (src = Nil \/ dst = Nil) => err = "VertexNilError"
            /\ (src # Nil /\ dst # Nil /\ src = dst) => err = "SrcDstEqualError"
            /\ (src # Nil /\ dst # Nil /\ src # dst /\ isEdge(D, src, dst))
                    => err = "EdgeDuplicateError"
            /\ (src \in vertices /\ dst \in vertices /\ src # dst
                    /\ ~isEdge(D, src, dst)
                    /\ src \in Reachable(outboundEdge, dst))
                    => err = "EdgeLoopError"
            /\ err = "EdgeLoopError" =>
                    /\ src # dst
                    /\ ~isEdge(D, src, dst)
                    /\ src \in Reachable(outboundEdge, dst)

\* An AddEdge call was rejected as a duplicate of an edge of the graph.
C6_Witness ==
    /\ last.op = "AddEdge"
    /\ last.err = "EdgeDuplicateError"
    /\ Edges(D) # {}

C8_AddVertexErrors ==
    \A v \in Arg :
        LET r == AddVertex(D, v)
            idTaken == \E w \in vertices : w # v /\ Id(w) = Id(v)
        IN  /\ v = Nil => r.err = "VertexNilError"
            /\ v \in vertices => r.err = "VertexDuplicateError"
            /\ (v # Nil /\ v \notin vertices /\ idTaken)
                    => r.err = "IdDuplicateError"
            /\ r.err # "ok" => r.d = D
            /\ (v # Nil /\ v \notin vertices /\ ~idTaken) =>
                    /\ r.err = "ok"
                    /\ v \in r.d.vertices
                    /\ GetOrder(r.d).ret = GetOrder(D).ret + 1

\* An AddVertex call was rejected for the id of its vertex while the graph
\* had edges.
C8_Witness ==
    /\ last.op = "AddVertex"
    /\ last.err = "IdDuplicateError"
    /\ Edges(D) # {}

\* The call returned error err, left the struct as it is in this state and
\* started no goroutine.
Rejected(r, err) == r.err = err /\ r.d = D /\ r.go = 0

\* C9: every query that takes a vertex returns the validation error for a nil
\* vertex (GetVertex: for the empty id) and the not-found error for an unknown
\* one, a nil argument being reported as nil and not as unknown, and then it
\* changes neither graph nor caches and starts no walker.  IsEdge checks src
\* and then dst this way.
C9_QueriesRejectBadVertex ==
    /\ \A v \in Arg \ vertices :
            LET err == IF v = Nil THEN "VertexNilError" ELSE "VertexUnknownError"
            IN  /\ Rejected(GetChildren(D, v), err)
                /\ Rejected(GetParents(D, v), err)
                /\ Rejected(GetAncestors(D, v), err)
                /\ Rejected(GetDescendants(D, v), err)
                /\ Rejected(AncestorsWalker(D, v), err)
                /\ Rejected(DescendantsWalker(D, v), err)
                /\ Rejected(IsLeaf(D, v), err)
                /\ Rejected(IsRoot(D, v), err)
                /\ \A r \in GetOrderedAncestors(D, v) : Rejected(r, err)
                /\ \A r \in GetOrderedDescendants(D, v) : Rejected(r, err)
                /\ \A w \in Arg : Rejected(IsEdge(D, v, w), err)
                /\ \A w \in vertices : Rejected(IsEdge(D, w, v), err)
    /\ Rejected(GetVertex(D, EmptyId), "IdEmptyError")
    /\ \A id \in IdArg \ {EmptyId} :
            (\A v \in vertices : Id(v) # id)
                => Rejected(GetVertex(D, id), "IdUnknownError")

\* AncestorsWalker was called with an unknown vertex on a graph with edges
\* and filled caches, and no walker runs.
C9_Witness ==
    /\ last.op = "AncestorsWalker"
    /\ last.err = "VertexUnknownError"
    /\ Edges(D) # {}
    /\ DOMAIN descendantsCache # {}
    /\ DOMAIN ancestorsCache # {}
    /\ walkers = 0

\* C10: DeleteVertex of an unknown vertex, and DeleteEdge with an unknown
\* endpoint or without such an edge, return an error and leave the struct,
\* caches included, as it was; a second DeleteVertex or DeleteEdge with the
\* same arguments returns the not-found error and changes nothing.
C10_DeleteUnknown ==
    /\ \A v \in Vertex \ vertices :
            DeleteVertex(D, v) = Ret(D, "VertexUnknownError", {})
    /\ \A v \in vertices :
            LET once == DeleteVertex(D, v)
            IN  /\ once.err = "ok"
                /\ DeleteVertex(once.d, v) = Ret(once.d, "VertexUnknownError", {})
    /\ \A src, dst \in Vertex :
            LET once == DeleteEdge(D, src, dst)
            IN  /\ ({src, dst} \subseteq vertices /\ <<src, dst>> \in Edges(D))
                    => /\ once.err = "ok"
                       /\ DeleteEdge(once.d, src, dst) =
                                Ret(once.d, "EdgeUnknownError", {})
                /\ ({src, dst} \subseteq vertices /\ src # dst
                        /\ <<src, dst>> \notin Edges(D))
                    => once = Ret(D, "EdgeUnknownError", {})
                /\ ~({src, dst} \subseteq vertices)
                    => once = Ret(D, "VertexUnknownError", {})

\* A DeleteEdge call was rejected for an edge the graph does not have, while
\* both caches held entries.
C10_Witness ==
    /\ last.op = "DeleteEdge"
    /\ last.err = "EdgeUnknownError"
    /\ DOMAIN descendantsCache # {}
    /\ DOMAIN ancestorsCache # {}

\* C11: a successful DeleteVertex(v) removes v from the vertex set and the id
\* map and removes exactly the edges incident to v, in the children sets and
\* in the parents sets; the other vertices, ids and edges stay, so that the
\* leaves (roots) afterwards are the remaining vertices whose only children
\* (parents) were v or none.
C11_DeleteVertexFrame ==
    \A v \in vertices :
        LET r == DeleteVertex(D, v)
            kept == {e \in Edges(D) : e[1] # v /\ e[2] # v}
        IN  /\ r.err = "ok"
            /\ r.d.vertices = vertices \ {v}
            /\ DOMAIN r.d.vertexIds = DOMAIN vertexIds \ {Id(v)}
            /\ \A i \in DOMAIN r.d.vertexIds : r.d.vertexIds[i] = vertexIds[i]
            /\ Edges(r.d) = kept
            /\ \A x, y \in Vertex :
                    x \in r.d.inboundEdge[y] <=> <<x, y>> \in kept
            /\ getLeafs(r.d) =
                    {x \in vertices \ {v} : outboundEdge[x] \subseteq {v}}
            /\ getRoots(r.d) =
                    {x \in vertices \ {v} : inboundEdge[x] \subseteq {v}}

\* A DeleteVertex call succeeded and left two vertices without any edge,
\* while the vertex in the middle of a path of two edges can be deleted.
C11_Witness ==
    /\ last.op = "DeleteVertex"
    /\ last.err = "ok"
    /\ Cardinality(vertices) = 2
    /\ Edges(D) = {}
    /\ \E v \in Vertex : DeleteVertex(D, v).err = "ok"

----------------------------------------------------------------------------
(* DescendantsFlow measured against the graph: the sub-graph of the root   *)
(* and the result each vertex must have, computed without any worker.      *)

\* The root of the flow and its descendants.
SubGraph == {flow.root} \cup Reachable(outboundEdge, flow.root)

\* The parents of v that are in the sub-graph of the root.
SubParents(v) == inboundEdge[v] \cap SubGraph

RECURSIVE Expected(_), ExpectedSum(_)
\* What the callback of the examples returns for v when every parent in the
\* sub-graph has returned its own.
Expected(v) == Value(v) + ExpectedSum(SubParents(v))

ExpectedSum(ps) ==
    IF ps = {} THEN 0
    ELSE LET p == CHOOSE p \in ps : TRUE
         IN  Expected(p) + ExpectedSum(ps \ {p})

\* The flow runs or has run on a known root.
FlowOnGraph == flow.pc \in {"running", "returned"} /\ flow.root \in vertices

\* The callback of v has been invoked.
Started(v) == flow.st[v] \in {"running", "done", "failed"}

C13_FlowParentsFirst ==
    FlowOnGraph =>
        /\ \A v \in SubGraph : Started(v) =>
                /\ \A p \in SubParents(v) :
                        flow.st[p] = "done" /\ flow.slot[p] = Expected(p)
                /\ flow.seen[v] = {<<p, Expected(p)>> : p \in SubParents(v)}
        /\ (vertices = 1 .. 5 /\ flow.root = 1 /\ flow.st[5] = "done")
                => /\ {r[1] : r \in flow.seen[5]} = {3, 4}
                   /\ flow.slot[5] = 10

\* In the example the callback of the vertex with two parents has returned.
C13_Witness ==
    /\ FlowOnGraph
    /\ vertices = 1 .. 5
    /\ flow.root = 1
    /\ flow.st[5] = "done"

\* C14: when every callback returns, a DescendantsFlow call on a known root
\* returns, and unless a callback returned an error no worker is left
\* waiting: every vertex of the sub-graph is done, also one that has a parent
\* outside the sub-graph.
C14_FlowReturns ==
    (flow.pc = "running")
        ~> (/\ flow.pc = "returned"
            /\ flow.failedOrder = <<>> => \A v \in flow.sub : flow.st[v] = "done")

\* A flow has returned without error on a sub-graph with a vertex that has a
\* parent outside the sub-graph.
C14_Witness ==
    /\ FlowOnGraph
    /\ flow.pc = "returned"
    /\ flow.failedOrder = <<>>
    /\ \E v \in SubGraph \ {flow.root} : ~(inboundEdge[v] \subseteq SubGraph)
    /\ \A v \in SubGraph : flow.st[v] = "done"

\* C15: when a callback returns an error, the call's error is the error of
\* the callback that failed first, and no callback is started while a parent
\* in the sub-graph has not published a result: the descendants of a failed
\* vertex are never started.
C15_FlowError ==
    FlowOnGraph =>
        /\ flow.failedOrder # <<>>
                => flow.err = "CallbackError" /\ flow.errAt = flow.failedOrder[1]
        /\ flow.failedOrder = <<>> => flow.err = "ok"
        /\ \A v \in SubGraph : flow.calls[v] > 0 =>
                \A p \in SubParents(v) : flow.slot[p] # NoResult
        /\ \A v \in SubGraph : flow.st[v] = "failed" =>
                /\ flow.slot[v] = NoResult
                /\ \A x \in Reachable(outboundEdge, v) : flow.calls[x] = 0

\* A flow has returned after two callbacks failed, with a vertex that was
\* never started.
C15_Witness ==
    /\ FlowOnGraph
    /\ flow.pc = "returned"
    /\ Len(flow.failedOrder) = 2
    /\ \E v \in SubGraph : flow.calls[v] = 0

\* C16: on success DescendantsFlow returns one result for the root and for
\* every descendant, each the value the callback returned for that vertex;
\* for a root without descendants the callback has run once, without parent
\* results, and exactly one result is returned.
C16_FlowResults ==
    (FlowOnGraph /\ flow.pc = "returned" /\ flow.err = "ok") =>
        /\ DOMAIN flow.ret = SubGraph
        /\ \A v \in SubGraph : flow.ret[v] = Expected(v)
        /\ outboundEdge[flow.root] = {}
                => /\ Cardinality(DOMAIN flow.ret) = 1
                   /\ flow.calls[flow.root] = 1
                   /\ flow.seen[flow.root] = {}

\* The flow of the example has returned without error.
C16_Witness ==
    /\ FlowOnGraph
    /\ flow.pc = "returned"
    /\ flow.err = "ok"
    /\ vertices = 1 .. 5
    /\ flow.root = 1

----------------------------------------------------------------------------
(* The walkers measured against the graph *)

\* A sequence without a vertex twice.
NoDuplicates(seq) ==
    \A i, j \in DOMAIN seq : i # j => seq[i] # seq[j]

\* The vertices of a sequence.
Range(seq) == {seq[i] : i \in DOMAIN seq}

RECURSIVE DistFrom(_, _, _, _, _)
DistFrom(edge, frontier, seen, x, k) ==
    IF x \in frontier THEN k
    ELSE LET next == UNION {edge[y] : y \in frontier} \ (seen \cup frontier)
         IN  DistFrom(edge, next, seen \cup frontier, x, k + 1)

\* The length of a shortest path from v to x, for x reachable from v.
Dist(edge, v, x) == DistFrom(edge, edge[v], {v}, x, 1)

\* Every vertex nearer to v than seq[j] comes before position j.
BreadthFirst(edge, v, seq) ==
    \A j \in DOMAIN seq :
        \A x \in Reachable(edge, v) :
            Dist(edge, v, x) < Dist(edge, v, seq[j])
                => \E i \in 1 .. (j - 1) : seq[i] = x

\* The adjacency map of the current state that the walker follows.
WalkedEdge == walkEdge(D, walker)

\* C17: a fully drained AncestorsWalker(v) / DescendantsWalker(v), and with
\* it GetOrderedAncestors / GetOrderedDescendants, emits every ancestor /
\* descendant of v exactly once and nothing else, never v itself: as a set
\* it is what GetAncestors(v) / GetDescendants(v) returns, also when a
\* vertex is reachable over several paths.
C17_WalkerEmitsClosure ==
    /\ walker.pc # "idle" =>
          /\ NoDuplicates(walker.emitted)
          /\ Range(walker.emitted) \subseteq Reachable(WalkedEdge, walker.v)
          /\ walker.v \notin Range(walker.emitted)
          /\ walker.consumer = "drained" =>
                Range(walker.emitted) =
                    IF walker.edge = "inboundEdge"
                    THEN GetAncestors(D, walker.v).ret
                    ELSE GetDescendants(D, walker.v).ret
    /\ \A v \in vertices :
          /\ \A r \in GetOrderedAncestors(D, v) :
                NoDuplicates(r.ret) /\ Range(r.ret) = GetAncestors(D, v).ret
          /\ \A r \in GetOrderedDescendants(D, v) :
                NoDuplicates(r.ret) /\ Range(r.ret) = GetDescendants(D, v).ret

\* A walker was drained in a graph where a vertex it emitted is reachable
\* over two paths.
C17_Witness ==
    /\ walker.consumer = "drained"
    /\ \E x \in Range(walker.emitted) :
            Cardinality({y \in Range(walker.emitted) \cup {walker.v} :
                            x \in WalkedEdge[y]}) >= 2

\* C18: the walkers emit in breadth-first order: a vertex at shortest
\* distance k from the start vertex is emitted before every vertex at a
\* greater shortest distance; the order among vertices at the same distance
\* is free.
C18_WalkerBreadthFirst ==
    /\ walker.pc # "idle" =>
            BreadthFirst(WalkedEdge, walker.v, walker.emitted)
    /\ \A v \in vertices :
          /\ \A r \in GetOrderedAncestors(D, v) :
                BreadthFirst(inboundEdge, v, r.ret)
          /\ \A r \in GetOrderedDescendants(D, v) :
                BreadthFirst(outboundEdge, v, r.ret)

\* A walker was drained that emitted two vertices at distance one and then
\* vertices farther away.
C18_Witness ==
    /\ walker.consumer = "drained"
    /\ Cardinality(WalkedEdge[walker.v]) >= 2
    /\ Range(walker.emitted) # WalkedEdge[walker.v]

\* C19: if the consumer of a walker stops receiving without ever raising the
\* signal, the goroutine of the walker does not block forever: it ends and
\* releases the read lock.
C19_AbandonedWalkerEnds ==
    (walker.consumer = "stopped" /\ ~walker.signalled)
        ~> (walker.pc = "done" /\ ~walker.rlock)

\* C20: after the consumer has raised the signal and stopped receiving, the
\* goroutine of the walker ends in every interleaving, with both channels
\* closed and the read lock released, and a later AddEdge, DeleteEdge or
\* DeleteVertex gets the write lock.
C20_SignalledWalkerEnds ==
    /\ (walker.consumer = "stopped" /\ walker.signalled)
            ~> (walker.pc = "done" /\ walker.closed /\ ~walker.rlock)
    /\ (walker.signalled /\ walker.writer = "waiting")
            ~> (walker.writer = "done")

\* C21: the signal of a walker may be raised at any point: before the first
\* emission, after the walk has finished, or more than once; the consumer's
\* send on signal never panics and never has to wait.
C21_SignalNeverPanicsOrBlocks ==
    walker.consumer \notin {"panic", "blocked"}

----------------------------------------------------------------------------
(* ReduceTransitively measured against the graph *)

\* c is reachable from v over a path of two or more edges of the map edge.
LongPath(edge, v, c) ==
    \E other \in edge[v] \ {c} : c \in Reachable(edge, other)

\* The graph of the example A->B, A->C, B->D, C->D, A->D.
ReduceExampleEdges == {<<1, 2>>, <<1, 3>>, <<2, 4>>, <<3, 4>>, <<1, 4>>}

\* C22: ReduceTransitively removes an edge (v, c) if and only if c is a
\* descendant of another child of v; afterwards no edge (v, c) is left with a
\* path of two or more edges from v to c, and a second call removes nothing.
\* On A->B, A->C, B->D, C->D, A->D only A->D is removed; a tree stays as it
\* is.
C22_ReduceRemovesImpliedEdges ==
    LET r == ReduceTransitively(D).d
    IN  /\ \A e \in Edges(D) :
                e \notin Edges(r) <=> LongPath(outboundEdge, e[1], e[2])
        /\ \A e \in Edges(r) : ~LongPath(r.outboundEdge, e[1], e[2])
        /\ Edges(ReduceTransitively(r).d) = Edges(r)
        /\ Edges(D) = ReduceExampleEdges
                => Edges(r) = ReduceExampleEdges \ {<<1, 4>>}
        /\ (\A v \in vertices : Cardinality(inboundEdge[v]) <= 1)
                => Edges(r) = Edges(D)

\* ReduceTransitively has taken A->D out of the graph of the example: the
\* caches are flushed, which they are only when an edge was removed.
C22_Witness ==
    /\ last.op = "ReduceTransitively"
    /\ Edges(D) = ReduceExampleEdges \ {<<1, 4>>}
    /\ descendantsCache = EmptyMap

\* C23: ReduceTransitively keeps the vertex set and reachability: for every
\* vertex GetDescendants and GetAncestors return the same sets after the
\* call as before, and edges are only removed, never added.
C23_ReducePreservesReachability ==
    LET r == ReduceTransitively(D).d
    IN  /\ r.vertices = vertices
        /\ r.vertexIds = vertexIds
        /\ Edges(r) \subseteq Edges(D)
        /\ \A x, y \in Vertex : x \in r.inboundEdge[y] <=> <<x, y>> \in Edges(r)
        /\ \A v \in vertices :
                /\ GetDescendants(r, v).ret = GetDescendants(D, v).ret
                /\ GetAncestors(r, v).ret = GetAncestors(D, v).ret
                /\ Reachable(r.outboundEdge, v) = Reachable(outboundEdge, v)
                /\ Reachable(r.inboundEdge, v) = Reachable(inboundEdge, v)

\* ReduceTransitively has removed an edge and left a path of three edges.
C23_Witness ==
    /\ last.op = "ReduceTransitively"
    /\ descendantsCache = EmptyMap
    /\ Edges(D) # {}
    /\ \E v \in vertices : Cardinality(Reachable(outboundEdge, v)) = 3
    /\ Cardinality(Edges(D)) = 3

----------------------------------------------------------------------------
(* The walks with a visitor measured against the graph *)

\* The vertices before position k of a sequence.
Before(seq, k) == {seq[i] : i \in 1 .. (k - 1)}

\* Every vertex follows the vertex visited last that still has a child not
\* yet visited, as one of its children; it is a root when there is none.
DepthFirst(seq) ==
    \A k \in DOMAIN seq :
        LET open == {j \in 1 .. (k - 1) :
                        outboundEdge[seq[j]] \ Before(seq, k) # {}}
        IN  IF open = {} THEN seq[k] \in getRoots(D)
            ELSE seq[k] \in outboundEdge[seq[CHOOSE j \in open :
                                                \A i \in open : i <= j]]

\* The number of edges of a shortest path from a root to v.
Level(v) == DistFrom(outboundEdge, getRoots(D), {}, v, 0)

\* No vertex comes before a vertex of a lower level.
LevelByLevel(seq) ==
    \A i, j \in DOMAIN seq : i < j => Level(seq[i]) <= Level(seq[j])

\* The orders TestDFSWalk and TestBFSWalk expect.
ExpectedDFS ==
    /\ D = TestWalkDAG => visit.visits = <<1, 2, 3, 4, 5>>
    /\ D = TestWalkDAG2 => visit.visits = <<1, 3, 5, 2, 4>>
    /\ D = TestWalkDAG3 => visit.visits = <<1, 3, 2, 4, 5>>
    /\ D = TestWalkDAG4 => visit.visits = <<1, 2, 3, 5, 4>>
    /\ D = TestWalkDAG5 => visit.visits = <<1, 3, 5, 2, 4>>

ExpectedBFS ==
    /\ D = TestWalkDAG => visit.visits = <<1, 2, 3, 4, 5>>
    /\ D = TestWalkDAG2 => visit.visits = <<1, 2, 4, 3, 5>>
    /\ D = TestWalkDAG3 => visit.visits = <<1, 2, 4, 3, 5>>
    /\ D = TestWalkDAG4 => visit.visits = <<1, 2, 3, 4, 5>>
    /\ D = TestWalkDAG5 => visit.visits = <<1, 2, 3, 4, 5>>

\* C24: DFSWalk and BFSWalk call the visitor exactly once for every vertex
\* of the graph, starting from the roots, also when a vertex has several
\* parents or the graph has several roots or components; DFSWalk visits
\* depth-first, BFSWalk level by level.
C24_WalksVisitEachVertexOnce ==
    visit.op \in {"DFSWalk", "BFSWalk"} =>
        /\ NoDuplicates(visit.visits)
        /\ Range(visit.visits) \subseteq vertices
        /\ visit.visits # <<>> => visit.visits[1] \in getRoots(D)
        /\ visit.op = "DFSWalk" => DepthFirst(visit.visits)
        /\ visit.op = "BFSWalk" => LevelByLevel(visit.visits)
        /\ visit.pc = "done" =>
                /\ Range(visit.visits) = vertices
                /\ visit.op = "DFSWalk" => ExpectedDFS
                /\ visit.op = "BFSWalk" => ExpectedBFS

\* DFSWalk has returned on a graph of two components with three roots and a
\* vertex with two parents.
C24_Witness ==
    /\ visit.pc = "done"
    /\ visit.op = "DFSWalk"
    /\ D = TestWalkDAG3
    /\ visit.visits = <<1, 3, 2, 4, 5>>

\* The orders TestOrderedWalk expects.
ExpectedOrdered ==
    /\ D = TestWalkDAG => visit.visits = <<1, 2, 3, 4, 5>>
    /\ D = TestWalkDAG2 => visit.visits = <<1, 2, 4, 3, 5>>
    /\ D = TestWalkDAG3 => visit.visits = <<1, 2, 4, 3, 5>>
    /\ D = TestWalkDAG4 => visit.visits = <<1, 2, 3, 4, 5>>
    /\ D = TestWalkDAG5 => visit.visits = <<1, 2, 4, 3, 5>>

----------------------------------------------------------------------------
(* Stored graphs measured against the live graph *)

\* The pairs (src, dst) of the vertices of d with an edge src -> dst.
EdgePairs(d) ==
    {e \in d.vertices \X d.vertices : e[2] \in d.outboundEdge[e[1]]}

\* The pairs (src, dst) of the vertices of d where dst knows src as parent.
ParentPairs(d) ==
    {e \in d.vertices \X d.vertices : e[1] \in d.inboundEdge[e[2]]}

\* The bytes TestMarshalUnmarshalJSON expects.
ExpectedJSON ==
    /\ D = TestWalkDAG => MarshalJSON(D).ret =
        bytesOf(<<<<1, 1>>, <<2, 2>>, <<3, 3>>, <<4, 4>>, <<5, 5>>>>,
                <<<<1, 2>>, <<2, 3>>, <<2, 4>>, <<4, 5>>>>)
    /\ D = TestWalkDAG2 => MarshalJSON(D).ret =
        bytesOf(<<<<1, 1>>, <<3, 3>>, <<5, 5>>, <<2, 2>>, <<4, 4>>>>,
                <<<<1, 3>>, <<3, 5>>, <<2, 3>>, <<4, 5>>>>)
    /\ D = TestWalkDAG3 => MarshalJSON(D).ret =
        bytesOf(<<<<1, 1>>, <<3, 3>>, <<2, 2>>, <<4, 4>>, <<5, 5>>>>,
                <<<<1, 3>>, <<2, 3>>, <<4, 5>>>>)
    /\ D = TestWalkDAG4 => MarshalJSON(D).ret =
        bytesOf(<<<<1, 1>>, <<2, 2>>, <<3, 3>>, <<5, 5>>, <<4, 4>>>>,
                <<<<1, 2>>, <<2, 3>>, <<2, 4>>, <<3, 5>>>>)

\* C26: round trip: UnmarshalJSON of MarshalJSON(d) yields a DAG with the
\* vertices of d, under the same ids and with the same values, and with the
\* edges of d.
C26_MarshalRoundTrip ==
    LET r == UnmarshalJSON(NewDAG, MarshalJSON(D).ret)
    IN  /\ r.err = "ok"
        /\ r.d.vertices = vertices
        /\ r.d.vertexIds = vertexIds
        /\ EdgePairs(r.d) = EdgePairs(D)
        /\ ParentPairs(r.d) = ParentPairs(D)
        /\ ExpectedJSON

\* The bytes of getTestWalkDAG2 were marshalled and unmarshalled again.
C26_Witness ==
    /\ last.op = "UnmarshalJSON"
    /\ last.err = "ok"
    /\ stored = MarshalJSON(TestWalkDAG2).ret
    /\ vertices = 1 .. 5
    /\ EdgePairs(D) = {<<1, 3>>, <<2, 3>>, <<3, 5>>, <<4, 5>>}

\* The first error the calls AddVertexByID and AddEdge return when they are
\* made for the lists of wd one after the other, "ok" when there is none.
RECURSIVE firstError(_, _, _)
firstError(d, vs, es) ==
    IF vs # <<>>
    THEN LET r == AddVertexByID(d, Head(vs)[1], Head(vs)[2])
         IN  IF r.err # "ok" THEN r.err ELSE firstError(r.d, Tail(vs), es)
    ELSE IF es # <<>>
    THEN LET r == AddEdgeByID(d, Head(es)[1], Head(es)[2])
         IN  IF r.err # "ok" THEN r.err ELSE firstError(r.d, vs, Tail(es))
    ELSE "ok"

\* C27: reconstructing a graph from a stored list of vertices and a list of
\* edges validates as live mutation does: stored data with a vertex id
\* twice, an edge to an unknown id, an edge twice or an edge that closes a
\* loop is rejected with the error the AddVertex or AddEdge call returns, and
\* no reconstructed graph has a cycle.
C27_ReconstructionRevalidates ==
    /\ [][last'.op = "UnmarshalJSON" /\ jsonWellFormed(stored')
            => last'.err = firstError(newDAG({}), jsonUnmarshal(stored').vs,
                                      jsonUnmarshal(stored').es)]_vars
    /\ [](\A v \in vertices : v \notin Reachable(outboundEdge, v))

----------------------------------------------------------------------------
(* The graph of the relatives measured against the graph *)

\* The edges of the current graph between the vertices of vs.
InducedEdges(vs) == {e \in EdgePairs(D) : e[1] \in vs /\ e[2] \in vs}

\* g is the part of the current graph on v and the vertices reachable from
\* it over edge, with the ids of the current graph.
IsRelativesGraph(g, v, edge) ==
    /\ g.vertices = {v} \cup Reachable(edge, v)
    /\ EdgePairs(g) = InducedEdges(g.vertices)
    /\ ParentPairs(g) = InducedEdges(g.vertices)
    /\ DOMAIN g.vertexIds = {idOf(D, w) : w \in g.vertices}
    /\ \A w \in g.vertices : g.vertexIds[idOf(D, w)] = w

\* The numbers TestDAG_GetDescendantsGraph and TestDAG_GetAncestorsGraph
\* expect.
ExpectedRelatives ==
    D = TestRelativesDAG =>
        /\ Cardinality(GetDescendantsGraph(D, 6).ret.d.vertices) = 3
        /\ Cardinality(EdgePairs(GetDescendantsGraph(D, 6).ret.d)) = 2
        /\ Cardinality(GetDescendantsGraph(D, 1).ret.d.vertices) = 8
        /\ Cardinality(EdgePairs(GetDescendantsGraph(D, 1).ret.d)) = 8
        /\ Cardinality(GetAncestorsGraph(D, 5).ret.d.vertices) = 5
        /\ Cardinality(EdgePairs(GetAncestorsGraph(D, 5).ret.d)) = 5

----------------------------------------------------------------------------
(* Roots, leaves, order and size measured against the graph *)

\* The vertices that no vertex has as a child.
WithoutParents == {v \in vertices : \A u \in vertices : v \notin outboundEdge[u]}

\* The vertices that no vertex has as a parent.
WithoutChildren == {v \in vertices : \A u \in vertices : v \notin inboundEdge[u]}

\* The vertices with no edge at all.
Isolated ==
    {v \in vertices : inboundEdge[v] = {} /\ outboundEdge[v] = {}}

----------------------------------------------------------------------------
(* Concurrent mutations measured against sequential ones *)

\* The call c made on the struct d with no other goroutine around.
Sequential(d, c) ==
    IF c.op = "AddVertex" THEN AddVertex(d, c.src) ELSE AddEdge(d, c.src, c.dst)

\* The struct and the errors are those of the calls made one after the
\* other in the order of the goroutines first and second.
InOrder(first, second) ==
    LET r1 == Sequential(callers.start, callers.ps[first])
        r2 == Sequential(r1.d, callers.ps[second])
    IN  /\ D = r2.d
        /\ callers.ps[first].err = r1.err
        /\ callers.ps[second].err = r2.err

\* Both goroutines have returned.
AllDone == \A p \in 1 .. NumCallers : callers.ps[p].pc = "done"

\* The goroutines called AddEdge(a, b) and AddEdge(b, a) for two vertices
\* the graph had.
OpposedEdges ==
    /\ callers.ps[1].op = "AddEdge" /\ callers.ps[2].op = "AddEdge"
    /\ callers.ps[1].src = callers.ps[2].dst
    /\ callers.ps[1].dst = callers.ps[2].src
    /\ callers.ps[1].src # callers.ps[1].dst
    /\ {callers.ps[1].src, callers.ps[1].dst} \subseteq callers.start.vertices

\* The goroutines called AddVertex with vertices of the same id, which the
\* graph did not have.
SameIdVertices ==
    /\ callers.ps[1].op = "AddVertex" /\ callers.ps[2].op = "AddVertex"
    /\ Id(callers.ps[1].src) = Id(callers.ps[2].src)
    /\ Id(callers.ps[1].src) \notin DOMAIN callers.start.vertexIds

\* The goroutines whose call returned nil.
Succeeded == {p \in 1 .. NumCallers : callers.ps[p].err = "ok"}

\* C30: structural mutations are atomic with respect to each other:
\* validation, check for circles and insertion happen under one hold of the
\* lock, so of concurrent AddEdge(a, b) and AddEdge(b, a) on known vertices
\* at most one succeeds, of concurrent AddVertex calls with the same id
\* exactly one succeeds, and every concurrent history leaves a state that
\* some sequential order of the same calls reaches.
C30_MutationsAtomic ==
    /\ \A p, q \in 1 .. NumCallers :
            /\ callers.ps[p].pc \in {"check", "insert", "unlock"}
            /\ callers.ps[q].pc \in {"check", "insert", "unlock"}
            => p = q
    /\ \A v \in vertices : v \notin Reachable(outboundEdge, v)
    /\ AllDone =>
            /\ InOrder(1, 2) \/ InOrder(2, 1)
            /\ OpposedEdges => Cardinality(Succeeded) <= 1
            /\ SameIdVertices => Cardinality(Succeeded) = 1

\* AddEdge(1, 2) and AddEdge(2, 1) were called at once on three vertices
\* without edges and both have returned, one of them with EdgeLoopError.
C30_Witness ==
    /\ AllDone
    /\ OpposedEdges
    /\ callers.start.outboundEdge = NoEdges
    /\ Cardinality(Succeeded) = 1
    /\ \E p \in 1 .. NumCallers : callers.ps[p].err = "EdgeLoopError"

\* The goroutines whose lock(i) has counted itself in the cMutex of i and
\* whose unlock(i) has not yet counted itself out: they hold or wait for i.
Referencing(i) ==
    {c \in Lockers :
        /\ callers[c].i = i
        /\ callers[c].pc \in {"wait", "locked", "unlock", "release", "uncount"}}

\* C35: the dMutex has a cMutex for the key i exactly when some goroutine
\* holds or waits for i, its count is the number of these goroutines (so it
\* is never deleted under a waiter), and the map is empty when every
\* lock/unlock pair has completed.
C35_PoolCounts ==
    /\ \A i \in Keys :
        i \in DOMAIN verticesLocked.mutexes <=> Referencing(i) # {}
    /\ \A i \in DOMAIN verticesLocked.mutexes :
        verticesLocked.mutexes[i].count = Cardinality(Referencing(i))
    /\ (\A c \in Lockers : callers[c].pc = "idle") =>
        verticesLocked.mutexes = EmptyMap

\* An unlock(1) has returned and left the cMutex of 1 to the two goroutines
\* that wait for it, while no goroutine references the key 2.
C35_Witness ==
    /\ last.op = "unlock"
    /\ \E c \in Lockers : callers[c].pc = "idle"
    /\ 1 \in DOMAIN verticesLocked.mutexes
    /\ verticesLocked.mutexes[1] = [mutex |-> 0, count |-> 2]
    /\ \A c \in Referencing(1) : callers[c].pc = "wait"
    /\ 2 \notin DOMAIN verticesLocked.mutexes

\* C36: a goroutine that waits in lock(i) for the instance mutex does not
\* hold globalMutex; the goroutine that holds globalMutex is in a section of
\* lock or unlock that waits for nothing, so that every unlock and every lock
\* of another key gets globalMutex and returns.
C36_WaitOutsideGlobal ==
    /\ [](\A c \in Lockers :
            /\ callers[c].pc = "wait" => verticesLocked.globalMutex # c
            /\ verticesLocked.globalMutex = c =>
                callers[c].pc \in {"count", "release", "uncount"})
    /\ \A c \in Lockers :
        /\ callers[c].pc = "unlock" ~> callers[c].pc = "idle"
        /\ (/\ callers[c].pc = "lock"
            /\ callers[c].i \notin DOMAIN verticesLocked.mutexes)
           ~> callers[c].pc = "locked"

\* A goroutine waits for the mutex of the key 1 that another one holds, while
\* a third one is in unlock(2) with globalMutex held.
C36_Witness ==
    \E c, h, o \in Lockers :
        /\ callers[c] = [pc |-> "wait", i |-> 1]
        /\ callers[h] = [pc |-> "locked", i |-> 1]
        /\ verticesLocked.mutexes[1].mutex = h
        /\ callers[o] = [pc |-> "uncount", i |-> 2]
        /\ verticesLocked.globalMutex = o

\* C31: while a goroutine is in GetAncestors or GetDescendants the edges are
\* those it saw when RLock returned; what it returns is the closure of its
\* vertex under these edges; and every entry of the two caches, at any time,
\* is the closure under the edges of the graph as it is.
C31_OneSnapshot ==
    /\ \A c \in Queriers :
        LET q == callers.rs[c]
        IN  /\ q.pc \in {"run", "return"} =>
                    q.seen = <<inboundEdge, outboundEdge>>
            /\ (q.pc \in {"return", "done"} /\ q.err = "ok") =>
                    q.ret = Reachable(q.seen[IF q.asc THEN 1 ELSE 2], q.v)
    /\ CachesSound(D)

\* GetDescendants(1) saw 1->2->3 and returned {2, 3}; DeleteEdge(2, 3) ran
\* after it; the other goroutine is in GetDescendants(1) after the deletion,
\* has merged the descendants of 2, and holds the mutex of 1.
C31_Witness ==
    \E c, e \in Queriers :
        /\ callers.rs[c].pc = "done"
        /\ ~callers.rs[c].asc
        /\ callers.rs[c].v = 1
        /\ callers.rs[c].ret = {2, 3}
        /\ callers.n = 1
        /\ outboundEdge[2] = {}
        /\ outboundEdge[1] = {2}
        /\ callers.rs[e].pc = "run"
        /\ ~callers.rs[e].asc
        /\ Len(callers.rs[e].st) = 1
        /\ callers.rs[e].st[1].v = 1
        /\ callers.rs[e].st[1].pc = "store"
        /\ callers.rs[e].st[1].cache = {2}
        /\ verticesLocked.mutexes[1].mutex = e

\* The goroutine c waits in lock(v) for an instance mutex that the goroutine
\* h holds.
WaitsFor(c, h) ==
    LET q == callers.rs[c]
    IN  /\ q.pc = "run"
        /\ q.st[Len(q.st)].pc = "wait"
        /\ verticesLocked.mutexes[q.st[Len(q.st)].v].mutex = h

\* C32: no two goroutines in GetAncestors and GetDescendants wait for each
\* other's instance mutex, so that all the calls return.
C32_NoWaitCycle ==
    \A c, h \in Queriers : ~(c # h /\ WaitsFor(c, h) /\ WaitsFor(h, c))

\* The calls of getAncestors or getDescendants on the vertex k, of any
\* goroutine and at any depth of its stack, whose pc is in pcs.
CallsAt(k, pcs) ==
    {x \in Queriers \X (1 .. NumIds) :
        /\ x[2] <= Len(callers.rs[x[1]].st)
        /\ callers.rs[x[1]].st[x[2]].v = k
        /\ callers.rs[x[1]].st[x[2]].pc \in pcs}

\* C34: at most one call is between the return of lock(k) and the Unlock of
\* the instance mutex in unlock(k), and the cMutex of k names its goroutine;
\* a call that collects or stores the closure of k finds no entry of k in its
\* cache, so that no second call populates it; and a call that has reached
\* its unlock(k) leaves the entry of k filled for the re-check of the next.
C34_OneComputation ==
    \A k \in Vertex :
        /\ Cardinality(CallsAt(k, {"recheck", "loop", "store", "unlock",
                                   "release"})) <= 1
        /\ \A x \in CallsAt(k, {"recheck", "loop", "store", "unlock",
                                "release"}) :
            /\ k \in DOMAIN verticesLocked.mutexes
            /\ verticesLocked.mutexes[k].mutex = x[1]
        /\ \A x \in CallsAt(k, {"loop", "store"}) :
            k \notin DOMAIN cacheOf(D, callers.rs[x[1]].st[x[2]].asc)
        /\ \A x \in CallsAt(k, {"unlock", "release", "uncount"}) :
            k \in DOMAIN cacheOf(D, callers.rs[x[1]].st[x[2]].asc)

\* On 1->2->3 two goroutines called GetDescendants(1) with no entry of 1 in
\* the cache.  One has stored {2, 3} and returned; the other, which waited
\* for the mutex of 1, found the entry on its re-check and collected nothing.
C34_Witness ==
    \E c, e \in Queriers :
        /\ callers.rs[c].pc = "done"
        /\ callers.rs[c].v = 1
        /\ ~callers.rs[c].asc
        /\ callers.rs[c].ret = {2, 3}
        /\ callers.rs[e].pc = "run"
        /\ callers.rs[e].st = <<[asc |-> FALSE, v |-> 1, pc |-> "unlock",
                                 todo |-> {}, cache |-> {}, ret |-> {2, 3}]>>
        /\ callers.n = 0
        /\ verticesLocked.mutexes[1] = [mutex |-> e, count |-> 1]

\* C33: GetOrderedAncestors and GetOrderedDescendants never get into a wait
\* cycle with a writer: the caller, with the read lock of the call held, does
\* not wait for the read lock of the walker call, nor for the goroutine that
\* waits for its read lock, behind a writer that waits for the caller.
C33_NoWaitCycle ==
    ~(/\ muDAG.writer = "waiting"
      /\ muDAG.readers > 0
      /\ \/ callers.pc = "walker"
         \/ callers.pc = "range" /\ walker.pc = "go")

----------------------------------------------------------------------------
(* Structure, edge deletion and cache invalidation *)

\* C37: in every reachable state dst is a child of src exactly when src is a
\* parent of dst, no vertex is its own child, the endpoints of every edge are
\* vertices, and vertexIds maps id to v exactly when v is a vertex with that
\* id; and a vertex that a step has removed can be added again at once.
C37_StructureConsistent ==
    /\ [](/\ \A src, dst \in Vertex :
                dst \in outboundEdge[src] <=> src \in inboundEdge[dst]
          /\ \A v \in Vertex : v \notin outboundEdge[v]
          /\ \A v \in Vertex :
                (outboundEdge[v] # {} \/ inboundEdge[v] # {}) => v \in vertices
          /\ \A id \in IdArg, v \in Vertex :
                (id \in DOMAIN vertexIds /\ vertexIds[id] = v)
                    <=> (v \in vertices /\ Id(v) = id))
    /\ [][\A v \in vertices \ vertices' :
                /\ Id(v) \notin DOMAIN vertexIds'
                /\ AddVertex(D', v).err = "ok"]_vars

\* DeleteVertex has removed the vertex of id 1 from a graph with an edge left,
\* and the other value with the id 1 can be added now.
C37_Witness ==
    /\ last.op = "DeleteVertex"
    /\ last.err = "ok"
    /\ 1 \notin DOMAIN vertexIds
    /\ 1 \notin vertices
    /\ AddVertex(D, NumIds + 1).err = "ok"
    /\ \E src, dst \in vertices : isEdge(D, src, dst)

\* AddEdge(src, dst) followed by DeleteEdge(src, dst) on the struct d.
AddThenDelete(d, src, dst) == DeleteEdge(AddEdge(d, src, dst).d, src, dst)

\* C38: a DeleteEdge call that succeeds removes one edge src->dst from both
\* adjacency maps and leaves the vertices, the ids and every other edge as
\* they were; GetSize is one less and IsEdge(src, dst) is false.  And on two
\* vertices of the graph, a successful AddEdge(src, dst) followed by
\* DeleteEdge(src, dst) gives back the edges, and GetDescendants and
\* GetAncestors return for every vertex what they returned before.
C38_DeleteEdgeExact ==
    /\ [][(last'.op = "DeleteEdge" /\ last'.err = "ok") =>
            /\ vertices' = vertices
            /\ vertexIds' = vertexIds
            /\ \E src, dst \in vertices :
                /\ isEdge(D, src, dst)
                /\ outboundEdge' = [outboundEdge EXCEPT ![src] = @ \ {dst}]
                /\ inboundEdge' = [inboundEdge EXCEPT ![dst] = @ \ {src}]
                /\ IsEdge(D', src, dst).err = "ok"
                /\ ~IsEdge(D', src, dst).ret
            /\ GetSize(D').ret = GetSize(D).ret - 1]_vars
    /\ [](\A src, dst \in vertices :
            AddEdge(D, src, dst).err = "ok" =>
                LET r == AddThenDelete(D, src, dst)
                IN  /\ r.err = "ok"
                    /\ r.d.vertices = vertices
                    /\ r.d.outboundEdge = outboundEdge
                    /\ r.d.inboundEdge = inboundEdge
                    /\ \A v \in vertices :
                        /\ GetDescendants(r.d, v).ret = GetDescendants(D, v).ret
                        /\ GetAncestors(r.d, v).ret = GetAncestors(D, v).ret)

\* DeleteEdge has removed one of the two edges that left a vertex, which
\* still has a descendant behind its child, and the edge can be added again.
C38_Witness ==
    /\ last.op = "DeleteEdge"
    /\ last.err = "ok"
    /\ GetSize(D).ret = 2
    /\ \E src \in vertices : Cardinality(outboundEdge[src]) = 1
                             /\ Reachable(outboundEdge, src) # outboundEdge[src]
    /\ \E src, dst \in vertices :
        /\ dst \in Reachable(outboundEdge, src)
        /\ AddEdge(D, src, dst).err = "ok"

\* The step is a successful call of one of the methods that invalidate.
Invalidates ==
    /\ last'.op \in {"AddEdge", "DeleteEdge", "DeleteVertex"}
    /\ last'.err = "ok"

\* C39 as claimed: a successful AddEdge, DeleteEdge or DeleteVertex leaves the
\* entry of every vertex that stays in the graph and whose closure is the
\* same under the new edges as under the old ones.
C39_InvalidationExact ==
    [][Invalidates =>
        \A v \in vertices' :
            /\ (/\ v \in DOMAIN ancestorsCache
                /\ Reachable(inboundEdge', v) = Reachable(inboundEdge, v))
                    => v \in DOMAIN ancestorsCache'
            /\ (/\ v \in DOMAIN descendantsCache
                /\ Reachable(outboundEdge', v) = Reachable(outboundEdge, v))
                    => v \in DOMAIN descendantsCache']_vars

\* The entries of the vertices of near are gone from the cache after the
\* step, and the entries the cache had for other vertices are as they were.
DropsOnly(before, after, near) ==
    /\ DOMAIN after \cap near = {}
    /\ \A v \in DOMAIN before \ near : v \in DOMAIN after /\ after[v] = before[v]

\* C39: a successful AddEdge(src, dst) removes the ancestor entries of dst and
\* its descendants and the descendant entries of src and its ancestors; a
\* successful DeleteEdge(src, dst) the ancestor entries of src and its
\* descendants and the descendant entries of dst and its ancestors; a
\* successful DeleteVertex(v) the ancestor entries of v and its descendants
\* and the descendant entries of v and its ancestors.  Every entry whose
\* closure changes is among them, and the entries of all other vertices stay.
C39_InvalidationConservative ==
    [][Invalidates =>
        /\ ChangedClosuresDropped(D, D')
        /\ \A e \in Edges(D') \ Edges(D) :
            /\ DropsOnly(ancestorsCache, ancestorsCache',
                         {e[2]} \cup Reachable(outboundEdge, e[2]))
            /\ DropsOnly(descendantsCache, descendantsCache',
                         {e[1]} \cup Reachable(inboundEdge, e[1]))
        /\ last'.op = "DeleteEdge" =>
            \A e \in Edges(D) \ Edges(D') :
                /\ DropsOnly(ancestorsCache, ancestorsCache',
                             {e[1]} \cup Reachable(outboundEdge, e[1]))
                /\ DropsOnly(descendantsCache, descendantsCache',
                             {e[2]} \cup Reachable(inboundEdge, e[2]))
        /\ \A v \in vertices \ vertices' :
            /\ DropsOnly(ancestorsCache, ancestorsCache',
                         {v} \cup Reachable(outboundEdge, v))
            /\ DropsOnly(descendantsCache, descendantsCache',
                         {v} \cup Reachable(inboundEdge, v))]_vars

\* DeleteEdge has succeeded and has left an edge, an ancestor entry of a
\* vertex far from the deleted edge, and a vertex without one.
C39_Witness ==
    /\ last.op = "DeleteEdge"
    /\ last.err = "ok"
    /\ DOMAIN ancestorsCache # {}
    /\ \E v \in vertices : v \notin DOMAIN ancestorsCache
    /\ \E src, dst \in vertices : isEdge(D, src, dst)

----------------------------------------------------------------------------
(* Returned maps *)

\* C40: the map a caller holds from GetVertices, GetChildren, GetParents,
\* GetAncestors or GetDescendants is a map of its own, and a write to it
\* leaves the vertices, the adjacency maps and the caches as they were, so
\* that each of these methods returns the same keys after the write as
\* before it.
C40_ReturnedAreCopies ==
    /\ [](returned.op # "" => returned.of = "own")
    /\ [][last'.op = "write" =>
            /\ UNCHANGED <<vertices, vertexIds, inboundEdge, outboundEdge,
                           ancestorsCache, descendantsCache>>
            /\ \A op \in MapQueries, v \in Arg :
                /\ returnedMap(D', op, v).err = returnedMap(D, op, v).err
                /\ returnedMap(D', op, v).ret = returnedMap(D, op, v).ret]_vars

\* The caller has written to the map it got from GetDescendants(v), which now
\* differs from the entry of v in the cache.
C40_Witness ==
    /\ last.op = "write"
    /\ returned.op = "GetDescendants"
    /\ returned.v \in DOMAIN descendantsCache
    /\ descendantsCache[returned.v] # {}
    /\ returned.val # descendantsCache[returned.v]
    /\ GetDescendants(D, returned.v).ret = Reachable(outboundEdge, returned.v)

====
